---------------------------- MODULE Spec2Model ----------------------------
(***************************************************************************)
(* Model of src/kext/ntfs_logfile.c: the $LogFile restart page validators, *)
(* the restart page loader, the journal scan (ntfs_logfile_check), the     *)
(* clean-shutdown test (ntfs_logfile_is_clean) and the journal reset       *)
(* (ntfs_logfile_empty).                                                   *)
(*                                                                         *)
(* Representation.  TLC integers are 32 bits wide, the driver's file       *)
(* offsets are 64 bits wide and NtfsMaxLogFileSize is 2^32.  Every offset  *)
(* into the journal (data_size, size, pos, ppos) is therefore counted in   *)
(* units of OfsUnit = NTFS_BLOCK_SIZE / 2 bytes, the finest granularity    *)
(* the scan ever computes; all on-disk fields (page sizes, offsets inside  *)
(* a page) stay in bytes.  64-bit fields (LSNs, file_size) are kept as     *)
(* their 8 little-endian bytes and decoded by the operators below.         *)
(***************************************************************************)
EXTENDS Integers, Sequences, FiniteSets, TLC

(***************************************************************************)
(* Program constants (ntfs_layout.h, ntfs_logfile.h, the platform).        *)
(***************************************************************************)
NTFS_BLOCK_SIZE == 512
NTFS_BLOCK_SIZE_SHIFT == 9
PAGE_SIZE == 4096
NtfsDefaultLogPageSize == 4096
NtfsMinLogRecordPages == 48
LOGFILE_NO_CLIENT == 65535
RESTART_VOLUME_IS_CLEAN == 2
SizeofRestartPageHeader == 30
SizeofLogClientRecord == 160
OffsetofFileSize == 24
SizeofU16 == 2
\* NTFS_BLOCK_SIZE / 2, the byte count of one offset unit of the model.
OfsUnit == 256
\* NtfsMaxLogFileSize = 0x100000000 bytes, in offset units.
NtfsMaxLogFileSize == 16777216

U16 == 65536

\* The null pointer: a record, so that it compares with pages and buffers.
NULL == [null |-> TRUE]

(***************************************************************************)
(* Bit and byte helpers.                                                   *)
(***************************************************************************)
RECURSIVE Pow2(_)
Pow2(n) == IF n = 0 THEN 1 ELSE 2 * Pow2(n - 1)

RECURSIVE BitAnd(_, _)
BitAnd(a, b) ==
    IF a = 0 \/ b = 0 THEN 0
    ELSE (IF a % 2 = 1 /\ b % 2 = 1 THEN 1 ELSE 0) + 2 * BitAnd(a \div 2, b \div 2)

RECURSIVE BitLen(_)
BitLen(x) == IF x = 0 THEN 0 ELSE 1 + BitLen(x \div 2)

\* The 8 little-endian bytes of a small non-negative number.
RECURSIVE LeBytes(_, _)
LeBytes(x, n) == IF n = 0 THEN << >> ELSE <<x % 256>> \o LeBytes(x \div 256, n - 1)

LE64(x) == LeBytes(x, 8)
\* Two's complement -1 and the most negative 64-bit value.
LE64MinusOne == [i \in 1..8 |-> 255]
LE64Min == [i \in 1..8 |-> IF i = 8 THEN 128 ELSE 0]

IsZero64(b) == \A i \in 1..8 : b[i] = 0

\* Unsigned comparison a > b of two 8-byte little-endian values.
RECURSIVE UGt(_, _, _)
UGt(a, b, i) ==
    IF i = 0 THEN FALSE
    ELSE IF a[i] # b[i] THEN a[i] > b[i]
    ELSE UGt(a, b, i - 1)

\* sle64_to_cpu followed by the signed comparison a > b.
SignedGt(a, b) ==
    LET na == a[8] >= 128
        nb == b[8] >= 128
    IN  IF na # nb THEN nb ELSE UGt(a, b, 8)

\* Number of right shifts until a u64 given by its 8 bytes becomes zero.
\* Variant: the index of the highest set bit instead of the number of shifts.
RECURSIVE FsBitsHighestBit(_, _)
FsBitsHighestBit(b, i) ==
    IF i = 0 THEN 0
    ELSE IF b[i] # 0 THEN 8 * (i - 1) + BitLen(b[i]) - 1
    ELSE FsBitsHighestBit(b, i - 1)

RECURSIVE FsBits(_, _)
FsBits(b, i) ==
    IF i = 0 THEN 0
    ELSE IF b[i] # 0 THEN 8 * (i - 1) + BitLen(b[i])
    ELSE FsBits(b, i - 1)

(***************************************************************************)
(* Record magics (ntfs_layout.h): the four bytes at the start of a block.  *)
(***************************************************************************)
magic_RSTR == <<82, 83, 84, 82>>
magic_CHKD == <<67, 72, 75, 68>>
magic_RCRD == <<82, 67, 82, 68>>
magic_empty == <<255, 255, 255, 255>>
magic_BAAD == <<66, 65, 65, 68>>

ntfs_is_rstr_record(m) == m = magic_RSTR
ntfs_is_chkd_record(m) == m = magic_CHKD
ntfs_is_rcrd_record(m) == m = magic_RCRD
\* Variant: a block of zeros counts as empty instead of a block of 0xFF.
ntfs_is_zeroed_record(m) == m = <<0, 0, 0, 0>>

ntfs_is_empty_record(m) == m = magic_empty

(***************************************************************************)
(* One block of the journal as the driver reads it: the restart page       *)
(* header, the restart area at restart_area_offset, the log client array   *)
(* (prev_client/next_client of each record) and the state of the page's    *)
(* update sequence protection: "prot" (on disk, fixup succeeds), "bad"     *)
(* (fixup reports a multi sector transfer error), "none" (no array),       *)
(* "deprot" (after a successful fixup in memory).                          *)
(***************************************************************************)
Client(prev, next) == [prev_client |-> prev, next_client |-> next]

RawBlock(m) ==
    [magic |-> m, usa_ofs |-> 0, usa_count |-> 0, chkdsk_lsn |-> LE64(0),
     system_page_size |-> 0, log_page_size |-> 0, restart_area_offset |-> 0,
     minor_ver |-> 0, major_ver |-> 0,
     current_lsn |-> LE64(0), log_clients |-> 0,
     client_free_list |-> 0, client_in_use_list |-> 0, flags |-> 0,
     seq_number_bits |-> 0, restart_area_length |-> 0,
     client_array_offset |-> 0, file_size |-> LE64(0),
     log_record_header_length |-> 0, log_page_data_offset |-> 0,
     clients |-> << >>, rest |-> Client(0, 0), usn |-> "none"]

\* What ntfs_attr_set(ni, 0, data_size, 0xff) leaves in a block: every byte,
\* hence every field, is all ones.  The three 32-bit fields would be
\* 0xFFFFFFFF, which TLC cannot hold; they carry the largest TLC integer, which
\* like 0xFFFFFFFF is odd, no power of two and above every page size.
FilledBlock ==
    [magic |-> <<255, 255, 255, 255>>, usa_ofs |-> 65535, usa_count |-> 65535,
     chkdsk_lsn |-> LE64MinusOne,
     system_page_size |-> 2147483647, log_page_size |-> 2147483647,
     restart_area_offset |-> 65535, minor_ver |-> 65535, major_ver |-> 65535,
     current_lsn |-> LE64MinusOne, log_clients |-> 65535,
     client_free_list |-> 65535, client_in_use_list |-> 65535, flags |-> 65535,
     seq_number_bits |-> 2147483647, restart_area_length |-> 65535,
     client_array_offset |-> 65535, file_size |-> LE64MinusOne,
     log_record_header_length |-> 65535, log_page_data_offset |-> 65535,
     clients |-> << >>, rest |-> Client(65535, 65535), usn |-> "none"]

(***************************************************************************)
(* ntfs_restart_page_header_is_valid(ni, rp, pos); pos in offset units.    *)
(***************************************************************************)
PosIsBytes(pos, bytes) == bytes % OfsUnit = 0 /\ bytes \div OfsUnit = pos

\* Variant: the log page size only has to be large enough.
PageSizeLogAnyMultiple(rp) ==
    \/ rp.system_page_size < NTFS_BLOCK_SIZE
    \/ rp.log_page_size < NTFS_BLOCK_SIZE
    \/ BitAnd(rp.system_page_size, rp.system_page_size - 1) # 0

PageSizeUnsupported(rp) ==
    \/ rp.system_page_size < NTFS_BLOCK_SIZE
    \/ rp.log_page_size < NTFS_BLOCK_SIZE
    \/ BitAnd(rp.system_page_size, rp.system_page_size - 1) # 0
    \/ BitAnd(rp.log_page_size, rp.log_page_size - 1) # 0

\* Variant: any offset up to the system page size is taken.
PosBeyondPage(rp, pos) == pos # 0 /\ pos > rp.system_page_size \div OfsUnit

PosIsIncorrect(rp, pos) == pos # 0 /\ ~PosIsBytes(pos, rp.system_page_size)

HaveUsa(rp) == ~(ntfs_is_chkd_record(rp.magic) /\ rp.usa_count = 0)

\* u16 usa_count = 1 + (system_page_size >> NTFS_BLOCK_SIZE_SHIFT)
UsaCount(rp) == (1 + rp.system_page_size \div Pow2(NTFS_BLOCK_SIZE_SHIFT)) % U16

\* u16 usa_end = usa_ofs + usa_count * sizeof(u16); 0 when there is no array
UsaEnd(rp) ==
    IF HaveUsa(rp) THEN (rp.usa_ofs + UsaCount(rp) * SizeofU16) % U16 ELSE 0

ntfs_restart_page_header_is_valid(rp, pos) ==
    /\ ~PageSizeUnsupported(rp)
    /\ ~PosIsIncorrect(rp, pos)
    /\ rp.major_ver = 1 /\ rp.minor_ver = 1
    /\ HaveUsa(rp) =>
          /\ UsaCount(rp) = rp.usa_count
          /\ ~(rp.usa_ofs < SizeofRestartPageHeader)
          /\ ~(UsaEnd(rp) > NTFS_BLOCK_SIZE - SizeofU16)
    /\ LET ra_ofs == rp.restart_area_offset
       IN  ~(\/ ra_ofs % 8 # 0
             \/ (IF HaveUsa(rp) THEN ra_ofs < UsaEnd(rp)
                 ELSE ra_ofs < SizeofRestartPageHeader)
             \/ ra_ofs > rp.system_page_size)
    /\ ~(~ntfs_is_chkd_record(rp.magic) /\ ~IsZero64(rp.chkdsk_lsn))

(***************************************************************************)
(* ntfs_restart_area_is_valid(ni, rp).                                     *)
(***************************************************************************)
\* u16 ra_len = ca_ofs + log_clients * sizeof(LOG_CLIENT_RECORD)
RaLen(rp) == (rp.client_array_offset + rp.log_clients * SizeofLogClientRecord) % U16

ntfs_restart_area_is_valid(rp) ==
    LET ra_ofs == rp.restart_area_offset
        ca_ofs == rp.client_array_offset
    IN  /\ ~(ra_ofs + OffsetofFileSize > NTFS_BLOCK_SIZE - SizeofU16)
        /\ ~(\/ ca_ofs % 8 # 0
             \/ ra_ofs + ca_ofs > NTFS_BLOCK_SIZE - SizeofU16)
        /\ ~(\/ ra_ofs + RaLen(rp) > rp.system_page_size
             \/ ra_ofs + rp.restart_area_length > rp.system_page_size
             \/ RaLen(rp) > rp.restart_area_length)
        /\ ~(\/ (rp.client_free_list # LOGFILE_NO_CLIENT
                 /\ rp.client_free_list >= rp.log_clients)
             \/ (rp.client_in_use_list # LOGFILE_NO_CLIENT
                 /\ rp.client_in_use_list >= rp.log_clients))
        /\ rp.seq_number_bits = 67 - FsBits(rp.file_size, 8)
        /\ rp.log_record_header_length % 8 = 0
        /\ rp.log_page_data_offset % 8 = 0

(***************************************************************************)
(* ntfs_log_client_array_is_consistent(ni, rp).  CheckList is the for loop *)
(* at check_list: it returns whether the list passed and the budget        *)
(* nr_clients that is left.                                                *)
(***************************************************************************)
\* Line 325: cr = ca + idx.  clients holds the first records of the array;
\* rest is what the memory holds at every record after them, inside the
\* buffer or past its end.
ClientRecord(rp, idx) ==
    IF idx < Len(rp.clients) THEN rp.clients[idx + 1] ELSE rp.rest

RECURSIVE CheckList(_, _, _, _, _)
CheckList(rp, idx, nr_clients, idx_is_first, seen) ==
    IF idx = LOGFILE_NO_CLIENT
    THEN [ok |-> TRUE, nr_clients |-> nr_clients, seen |-> seen]
    ELSE IF nr_clients = 0 \/ idx >= rp.log_clients
    THEN [ok |-> FALSE, nr_clients |-> nr_clients, seen |-> seen]
    ELSE LET cr == ClientRecord(rp, idx)
         IN  IF idx_is_first /\ cr.prev_client # LOGFILE_NO_CLIENT
             THEN [ok |-> FALSE, nr_clients |-> nr_clients,
                   seen |-> Append(seen, idx)]
             ELSE CheckList(rp, cr.next_client, nr_clients - 1, FALSE,
                            Append(seen, idx))

\* Variant: nr_clients is set to log_clients again before the in use list.
InUseBudgetFresh(rp, left) == rp.log_clients

\* Lines 335-339: the jump back to check_list sets idx only; nr_clients keeps
\* what the free list left of it.
InUseBudget(rp, left) == left

\* The walk over both lists: the verdict and the records it set cr to, in
\* order.
ClientArrayWalk(rp) ==
    LET free == CheckList(rp, rp.client_free_list, rp.log_clients, TRUE, << >>)
    IN  IF ~free.ok THEN [ok |-> FALSE, seen |-> free.seen]
        ELSE LET used == CheckList(rp, rp.client_in_use_list,
                                   InUseBudget(rp, free.nr_clients), TRUE, free.seen)
             IN  [ok |-> used.ok, seen |-> used.seen]

ntfs_log_client_array_is_consistent(rp) == ClientArrayWalk(rp).ok

(***************************************************************************)
(* ntfs_mst_fixup_post_read (ntfs_mst.c, a collaborator): it fails on a    *)
(* page whose update sequence numbers do not match and strips them         *)
(* otherwise.                                                              *)
(***************************************************************************)
MstFixupFails(trp) == trp.usn = "bad"
MstFixup(trp) == IF trp.usn = "prot" THEN [trp EXCEPT !.usn = "deprot"] ELSE trp

(***************************************************************************)
(* ntfs_restart_page_load(ni, rp, pos, wrp, lsn).                          *)
(*   wrp      whether the caller passed a non-NULL wrp                     *)
(*   allocOk  whether IOMalloc succeeds                                    *)
(*   mapFail  [at |-> j, err |-> e]: the j-th ntfs_page_map of the load    *)
(*            fails with e (at = 0: none fails)                            *)
(* The result tells the error, the buffer and LSN handed out, and what the *)
(* call allocated, freed, mapped and unmapped.                             *)
(***************************************************************************)
PageUnits == PAGE_SIZE \div OfsUnit

\* size = PAGE_SIZE - ((unsigned)pos & PAGE_MASK), in bytes
LoadFirstSize(pos) == PAGE_SIZE - (pos % PageUnits) * OfsUnit

\* Number of pages the do-while loop maps.
LoadMapsNeeded(rp, pos) ==
    IF LoadFirstSize(pos) >= rp.system_page_size THEN 0
    ELSE (rp.system_page_size - LoadFirstSize(pos) + PAGE_SIZE - 1) \div PAGE_SIZE

\* Variant: only EINVAL is remapped.
ReadErrOnlyEinval(e) == IF e = "EINVAL" THEN "EIO" ELSE e

\* if (err != EIO && err != ENOMEM) err = EIO;
ReadErr(e) == IF e # "EIO" /\ e # "ENOMEM" THEN "EIO" ELSE e

LoadResult(e, t, l, a, f, m, mf) ==
    [err |-> e, trp |-> t, lsn |-> l, allocs |-> a, frees |-> f,
     maps |-> m, unmaps |-> m, mapfails |-> mf]

LoadLsn(rp) ==
    IF ntfs_is_rstr_record(rp.magic) THEN rp.current_lsn ELSE rp.chkdsk_lsn

\* Variant: the check is run for every page with in-use clients.
LoadChecksClientsOfAnyMagic(rp) == rp.client_in_use_list # LOGFILE_NO_CLIENT

LoadNeedsClientCheck(rp) ==
    ntfs_is_rstr_record(rp.magic) /\ rp.client_in_use_list # LOGFILE_NO_CLIENT

LoadAppliesFixup(trp) == ~ntfs_is_chkd_record(trp.magic) \/ trp.usa_count # 0

\* Variant: the restart area may reach the end of the first block.
LoadFixupFatalPastBlock(rp) ==
    rp.restart_area_offset + rp.restart_area_length > NTFS_BLOCK_SIZE

LoadFixupFatal(rp) ==
    rp.restart_area_offset + rp.restart_area_length > NTFS_BLOCK_SIZE - SizeofU16

\* Variant: the err path returns without IOFree.
LoadLeaksOnErr(allocs) == 0

\* The err: label, lines 488-491: IOFree(trp), once for the buffer the call
\* allocated.
LoadFreeOnErr(allocs) == allocs

ntfs_restart_page_load(rp, pos, wrp, allocOk, mapFail) ==
    LET needed == LoadMapsNeeded(rp, pos)
        trp == IF LoadAppliesFixup(rp) THEN MstFixup(rp) ELSE rp
    IN  IF ~ntfs_restart_page_header_is_valid(rp, pos)
        THEN LoadResult("EINVAL", NULL, NULL, 0, 0, 0, 0)
        ELSE IF ~ntfs_restart_area_is_valid(rp)
        THEN LoadResult("EINVAL", NULL, NULL, 0, 0, 0, 0)
        ELSE IF ~allocOk
        THEN LoadResult("ENOMEM", NULL, NULL, 0, 0, 0, 0)
        ELSE IF mapFail.at >= 1 /\ mapFail.at <= needed
        THEN LoadResult(ReadErr(mapFail.err), NULL, NULL, 1, LoadFreeOnErr(1),
                        mapFail.at - 1, 1)
        ELSE IF LoadAppliesFixup(rp) /\ MstFixupFails(rp) /\ LoadFixupFatal(rp)
        THEN LoadResult("EINVAL", NULL, NULL, 1, LoadFreeOnErr(1), needed, 0)
        ELSE IF LoadNeedsClientCheck(rp)
                /\ ~ntfs_log_client_array_is_consistent(trp)
        THEN LoadResult("EINVAL", NULL, NULL, 1, LoadFreeOnErr(1), needed, 0)
        ELSE IF wrp
        THEN LoadResult("0", trp, LoadLsn(rp), 1, 0, needed, 0)
        ELSE LoadResult("0", NULL, LoadLsn(rp), 1, 1, needed, 0)

\* Lines 384-478: the log client records the load reads, in order: those of
\* the client-list check when the load gets that far and the check is due.
LoadClientsRead(rp, pos, allocOk, mapFail) ==
    IF /\ ntfs_restart_page_header_is_valid(rp, pos)
       /\ ntfs_restart_area_is_valid(rp)
       /\ allocOk
       /\ ~(mapFail.at >= 1 /\ mapFail.at <= LoadMapsNeeded(rp, pos))
       /\ ~(LoadAppliesFixup(rp) /\ MstFixupFails(rp) /\ LoadFixupFatal(rp))
       /\ LoadNeedsClientCheck(rp)
    THEN ClientArrayWalk(IF LoadAppliesFixup(rp) THEN MstFixup(rp) ELSE rp).seen
    ELSE << >>

(***************************************************************************)
(* ntfs_logfile_is_clean(ni, rp): "TRUE", "FALSE", or "panic" for the !rp  *)
(* panic.  flag is NVolLogFileEmpty(vol), rp a page or NULL.               *)
(***************************************************************************)
RestartVolumeIsClean(flags) == BitAnd(flags, RESTART_VOLUME_IS_CLEAN) # 0

\* Variant: the clean bit is compared with the whole flags field.
IsCleanWholeFlags(flag, rp) ==
    IF flag THEN "TRUE"
    ELSE IF rp = NULL THEN "panic"
    ELSE IF ~ntfs_is_rstr_record(rp.magic) /\ ~ntfs_is_chkd_record(rp.magic)
    THEN "FALSE"
    ELSE IF rp.client_in_use_list # LOGFILE_NO_CLIENT
            /\ rp.flags # RESTART_VOLUME_IS_CLEAN
    THEN "FALSE"
    ELSE "TRUE"

ntfs_logfile_is_clean(flag, rp) ==
    IF flag THEN "TRUE"
    ELSE IF rp = NULL THEN "panic"
    ELSE IF ~ntfs_is_rstr_record(rp.magic) /\ ~ntfs_is_chkd_record(rp.magic)
    THEN "FALSE"
    ELSE IF rp.client_in_use_list # LOGFILE_NO_CLIENT
            /\ ~RestartVolumeIsClean(rp.flags)
    THEN "FALSE"
    ELSE "TRUE"

(***************************************************************************)
(* The usable size computed by ntfs_logfile_check, in offset units.        *)
(***************************************************************************)
log_page_size ==
    IF PAGE_SIZE >= NtfsDefaultLogPageSize /\ PAGE_SIZE <= NtfsDefaultLogPageSize * 2
    THEN NtfsDefaultLogPageSize
    ELSE PAGE_SIZE

LogPageUnits == log_page_size \div OfsUnit

ClampLogFileSize(ds) == IF ds > NtfsMaxLogFileSize THEN NtfsMaxLogFileSize ELSE ds

\* size &= ~(s64)(log_page_size - 1)
TruncateToLogPage(sz) == sz - (sz % LogPageUnits)

UsableSize(ds) == TruncateToLogPage(ClampLogFileSize(ds))

\* Variant: only the two restart pages are required.
TooSmallNoRecordPages(sz) == sz < LogPageUnits * 2

\* size < log_page_size * 2 ||
\*     (size - log_page_size * 2) >> log_page_bits < NtfsMinLogRecordPages
LogFileTooSmall(sz) ==
    \/ sz < LogPageUnits * 2
    \/ (sz - LogPageUnits * 2) \div LogPageUnits < NtfsMinLogRecordPages

(***************************************************************************)
(* Bounds of the model and the journals it starts from.                    *)
(***************************************************************************)
\* The second special block of a journal sits at offset 2^k units,
\* k in 1..MaxSecondIdx, i.e. at byte offset NTFS_BLOCK_SIZE * 2^(k-1).
MaxSecondIdx == 5

\* Offsets (in units) of the blocks a scan can ever look at, plus the
\* half-block offset NTFS_BLOCK_SIZE / 2.
Offsets == {0} \cup {Pow2(i) : i \in {j \in 0..30 : Pow2(j) < NtfsMaxLogFileSize}}

\* Error codes the collaborators report: ntfs_page_map, vnode_get and
\* ntfs_attr_set.
CollabErrors == {"EIO", "ENOMEM", "EINVAL", "ENOENT"}
VnodeGetErrors == {"ENOENT", "EINVAL", "EIO"}
WriteErrors == {"EIO", "ENOSPC"}

\* What lies between the two special blocks of a journal.
FillBlocks == {FilledBlock, RawBlock(magic_BAAD)}

Lsns == {LE64(100), LE64(105), LE64MinusOne, LE64Min}

\* Bytes at offset 2^k units.
SlotBytes(k) == OfsUnit * Pow2(k)

RoundUp8(x) == ((x + 7) \div 8) * 8

\* A restart page that passes every validator when read at offset 0 or at its
\* own system_page_size: two client records, record 1 on the free list and
\* record 0 on the in use list when inuse = 0.
GoodPage(m, sps, lsn, inuse) ==
    LET cnt == 1 + sps \div NTFS_BLOCK_SIZE
        chkd == m = magic_CHKD
    IN  [RawBlock(m) EXCEPT
            !.usa_ofs = SizeofRestartPageHeader,
            !.usa_count = IF chkd THEN 0 ELSE cnt,
            !.chkdsk_lsn = IF chkd THEN lsn ELSE LE64(0),
            !.system_page_size = sps,
            !.log_page_size = PAGE_SIZE,
            !.restart_area_offset = RoundUp8(SizeofRestartPageHeader + 2 * cnt),
            !.minor_ver = 1, !.major_ver = 1,
            !.current_lsn = IF chkd THEN LE64(7) ELSE lsn,
            !.log_clients = 2,
            !.client_free_list = 1,
            !.client_in_use_list = inuse,
            !.flags = 0,
            !.seq_number_bits = 67 - 18,
            !.restart_area_length = 48 + 2 * SizeofLogClientRecord,
            !.client_array_offset = 48,
            !.file_size = LE64(204800),
            !.log_record_header_length = 48,
            !.log_page_data_offset = 64,
            !.clients = <<Client(LOGFILE_NO_CLIENT, LOGFILE_NO_CLIENT),
                          Client(LOGFILE_NO_CLIENT, LOGFILE_NO_CLIENT)>>,
            !.usn = IF chkd THEN "none" ELSE "prot"]

Rstr(sps, lsn) == GoodPage(magic_RSTR, sps, lsn, LOGFILE_NO_CLIENT)
Chkd(sps, lsn) == GoodPage(magic_CHKD, sps, lsn, LOGFILE_NO_CLIENT)
RstrOpen(sps, lsn) == GoodPage(magic_RSTR, sps, lsn, 0)

\* Pages the validators or the fixup reject, and one whose fixup error is
\* tolerated.
BadVersion(sps) == [Rstr(sps, LE64(100)) EXCEPT !.major_ver = 2]
BadClientHead(sps) ==
    [RstrOpen(sps, LE64(100)) EXCEPT !.clients[1].prev_client = 1]
CyclicClients(sps) ==
    [RstrOpen(sps, LE64(100)) EXCEPT !.clients[1].next_client = 0]
MstFatal(sps) ==
    [Rstr(sps, LE64(100)) EXCEPT !.usn = "bad", !.restart_area_length = 480]
MstTolerated(sps) == [Rstr(sps, LE64(100)) EXCEPT !.usn = "bad"]

PlainBlocks == {FilledBlock, RawBlock(magic_BAAD), RawBlock(magic_RCRD)}

FirstBlocks ==
    PlainBlocks
    \cup {Rstr(PAGE_SIZE, l) : l \in Lsns}
    \cup {Chkd(PAGE_SIZE, LE64(100)), RstrOpen(PAGE_SIZE, LE64(100)),
          Rstr(2 * PAGE_SIZE, LE64(100)),
          BadVersion(PAGE_SIZE), BadClientHead(PAGE_SIZE),
          CyclicClients(PAGE_SIZE), MstFatal(PAGE_SIZE),
          MstTolerated(PAGE_SIZE)}

SecondBlocks(k) ==
    PlainBlocks
    \cup {Rstr(SlotBytes(k), l) : l \in Lsns}
    \cup {Chkd(SlotBytes(k), LE64(105)), Rstr(2 * SlotBytes(k), LE64(105)),
          BadClientHead(SlotBytes(k))}

Journal(b0, k, bk, fill) ==
    [o \in Offsets |-> IF o = 0 THEN b0 ELSE IF o = Pow2(k) THEN bk ELSE fill]

Journals ==
    {Journal(b0, k, bk, fill) :
        b0 \in FirstBlocks, fill \in FillBlocks,
        <<k, bk>> \in UNION {{<<k, b>> : b \in SecondBlocks(k)} : k \in 1..MaxSecondIdx}}

\* The journals that are tried with every data size.
FewJournals ==
    {Journal(b0, MaxSecondIdx, bk, fill) :
        b0 \in FirstBlocks, bk \in SecondBlocks(MaxSecondIdx), fill \in FillBlocks}

\* data_size values (units): below two log pages, one log page short of the
\* minimum, the minimum plus a partial log page, and above NtfsMaxLogFileSize.
MinUsable == (2 + NtfsMinLogRecordPages) * LogPageUnits
DataSizes ==
    {LogPageUnits * 2 - 1, MinUsable - 1, MinUsable + LogPageUnits - 1,
     NtfsMaxLogFileSize + LogPageUnits}

\* Pages a caller may hand to ntfs_logfile_is_clean.
MaxCleanFlags == 7
CleanFlags == 0..MaxCleanFlags
CleanArgs ==
    {[GoodPage(m, PAGE_SIZE, LE64(100), u) EXCEPT !.flags = f] :
        m \in {magic_RSTR, magic_CHKD}, u \in {LOGFILE_NO_CLIENT, 0, 1},
        f \in CleanFlags}
    \cup {FilledBlock, RawBlock(magic_RCRD), RawBlock(magic_BAAD)}

(***************************************************************************)
(* State.                                                                  *)
(*   journal, data_size   the $LogFile content (block at each offset) and  *)
(*                        ni->data_size                                    *)
(*   NVolLogFileEmpty     the volume's journal-empty flag                  *)
(*   pc                   "idle" between calls, "scan" at the head of the  *)
(*                        for loop, "post" after it, "done" when a call    *)
(*                        has returned, "panic"                            *)
(*   emptied              ntfs_logfile_empty has reset the journal         *)
(*   rp, out              the rp argument ("NULL" or "OUT") and *rp        *)
(*   size .. rstr2_lsn    locals of ntfs_logfile_check                     *)
(*   heap                 buffers of the running call: how many were       *)
(*                        allocated, which are live, which were freed, and *)
(*                        the number of frees of a buffer that is not live *)
(*   res                  vnode iocounts and shared locks held, pages      *)
(*                        mapped, and per call counts of collaborator use  *)
(*   examined, loads      offsets whose block the running (or last) check  *)
(*                        classified; Loader calls with their results      *)
(*   last                 the running or last call and its result          *)
(***************************************************************************)
VARIABLES journal, data_size, NVolLogFileEmpty, emptied, pc, rp, out,
          size, pos, ppos, upl, logfile_is_empty,
          rstr1_ph, rstr2_ph, rstr1_lsn, rstr2_lsn, err,
          heap, res, examined, loads, last

volume == <<journal, data_size, NVolLogFileEmpty, emptied>>
locals == <<size, pos, ppos, upl, logfile_is_empty,
            rstr1_ph, rstr2_ph, rstr1_lsn, rstr2_lsn, err>>
vars == <<journal, data_size, NVolLogFileEmpty, emptied, pc, rp, out,
          size, pos, ppos, upl, logfile_is_empty,
          rstr1_ph, rstr2_ph, rstr1_lsn, rstr2_lsn, err,
          heap, res, examined, loads, last>>

UNDEF == "UNDEF"

NoHeap == [nalloc |-> 0, live |-> {}, freed |-> {}, bad |-> 0]
NoRes == [vnode |-> 0, lock |-> 0, mapped |-> 0, bad |-> 0,
          vgets |-> 0, locks |-> 0, reads |-> 0, writes |-> 0]
NoCall == [op |-> "none", arg |-> NULL, entry_empty |-> FALSE, done |-> TRUE,
           ret |-> "0", page |-> NULL, path |-> "none", fault |-> NULL]

LocalsReset ==
    /\ size' = 0 /\ pos' = 0 /\ ppos' = 0 /\ upl' = NULL
    /\ logfile_is_empty' = TRUE
    /\ rstr1_ph' = NULL /\ rstr2_ph' = NULL
    /\ rstr1_lsn' = UNDEF /\ rstr2_lsn' = UNDEF /\ err' = "0"

Init ==
    /\ \/ journal \in Journals /\ data_size = MinUsable + LogPageUnits - 1
       \/ journal \in FewJournals /\ data_size \in DataSizes
    /\ NVolLogFileEmpty = FALSE /\ emptied = FALSE
    /\ pc = "idle" /\ rp = "NULL" /\ out = NULL
    /\ size = 0 /\ pos = 0 /\ ppos = 0 /\ upl = NULL
    /\ logfile_is_empty = TRUE
    /\ rstr1_ph = NULL /\ rstr2_ph = NULL
    /\ rstr1_lsn = UNDEF /\ rstr2_lsn = UNDEF /\ err = "0"
    /\ heap = NoHeap /\ res = NoRes
    /\ examined = << >> /\ loads = << >>
    /\ last = NoCall

(***************************************************************************)
(* Heap and resource bookkeeping.                                          *)
(***************************************************************************)
\* IOFree(buf): a live buffer is freed, anything else is a bad free.
IOFree(h, buf) ==
    IF buf.id \in h.live
    THEN [h EXCEPT !.live = @ \ {buf.id}, !.freed = @ \cup {buf.id}]
    ELSE [h EXCEPT !.bad = @ + 1]

\* lck_rw_unlock_shared(&ni->lock); (void)vnode_put(ni->vn);
UnlockAndPut(r) ==
    [r EXCEPT !.lock = IF @ > 0 THEN @ - 1 ELSE @,
              !.vnode = IF @ > 0 THEN @ - 1 ELSE @,
              !.bad = @ + (IF r.lock > 0 THEN 0 ELSE 1)
                        + (IF r.vnode > 0 THEN 0 ELSE 1)]

\* ntfs_page_unmap(ni, upl, pl, FALSE)
Unmap(r) ==
    [r EXCEPT !.mapped = IF @ > 0 THEN @ - 1 ELSE @,
              !.bad = @ + (IF r.mapped > 0 THEN 0 ELSE 1)]

\* A call starts.
Started(op, arg) ==
    [NoCall EXCEPT !.op = op, !.arg = arg, !.done = FALSE,
                   !.entry_empty = NVolLogFileEmpty]

ResetCounts(r) ==
    [r EXCEPT !.bad = 0, !.vgets = 0, !.locks = 0, !.reads = 0, !.writes = 0]

Begin ==
    /\ pc = "idle"
    /\ UNCHANGED <<heap, examined, loads>>

\* The running call returns ret on the given path.
Finish(l, ret, page, path, fault) ==
    [l EXCEPT !.done = TRUE, !.ret = ret, !.page = page, !.path = path,
              !.fault = fault]

(***************************************************************************)
(* ntfs_logfile_check(ni, rp): entry, lines 529-589.  arg is "OUT" when    *)
(* the caller passes a pointer for the page and "NULL" when it passes NULL.*)
(***************************************************************************)
RpArgs == {"NULL", "OUT"}

\* vnode_get succeeded, lck_rw_lock_shared taken
GetAndLock(r) ==
    [r EXCEPT !.vnode = @ + 1, !.lock = @ + 1, !.vgets = @ + 1, !.locks = @ + 1]

\* if (err == EINVAL) err = EIO;
VnodeGetErr(e) == IF e = "EINVAL" THEN "EIO" ELSE e

\* if (rp) *rp = NULL;
ClearOut(arg) == IF arg # "NULL" THEN NULL ELSE out

CheckAlreadyEmpty(arg) ==
    /\ Begin
    /\ NVolLogFileEmpty
    /\ out' = ClearOut(arg)
    /\ res' = ResetCounts(res)
    /\ last' = Finish(Started("check", arg), "0", NULL, "is_empty", NULL)
    /\ pc' = "done"
    /\ UNCHANGED <<volume, rp, locals>>

CheckVnodeGetFails(arg, e) ==
    /\ Begin
    /\ ~NVolLogFileEmpty
    /\ out' = ClearOut(arg)
    /\ res' = [ResetCounts(res) EXCEPT !.vgets = @ + 1]
    /\ last' = Finish(Started("check", arg), VnodeGetErr(e), NULL, "vnode_get",
                      [src |-> "vnode_get", err |-> e])
    /\ pc' = "done"
    /\ UNCHANGED <<volume, rp, locals>>

CheckTooSmall(arg) ==
    /\ Begin
    /\ ~NVolLogFileEmpty
    /\ LogFileTooSmall(UsableSize(data_size))
    /\ out' = ClearOut(arg)
    /\ res' = UnlockAndPut(GetAndLock(ResetCounts(res)))
    /\ last' = Finish(Started("check", arg), "EINVAL", NULL, "too_small", NULL)
    /\ pc' = "done"
    /\ UNCHANGED <<volume, rp, locals>>

CheckStartScan(arg) ==
    /\ Begin
    /\ ~NVolLogFileEmpty
    /\ ~LogFileTooSmall(UsableSize(data_size))
    /\ out' = ClearOut(arg)
    /\ rp' = arg
    /\ res' = GetAndLock(ResetCounts(res))
    /\ last' = Started("check", arg)
    /\ size' = UsableSize(data_size)
    /\ pos' = 0 /\ ppos' = 0 /\ upl' = NULL
    /\ logfile_is_empty' = TRUE
    /\ rstr1_ph' = NULL /\ rstr2_ph' = NULL
    /\ pc' = "scan"
    /\ UNCHANGED <<volume, rstr1_lsn, rstr2_lsn, err>>

(***************************************************************************)
(* The for loop, lines 590-677: one action per path through its body.      *)
(***************************************************************************)
PageBase(p) == p - (p % PageUnits)

NeedMap == upl = NULL \/ PageBase(pos) # ppos

\* if (!pos) pos = NTFS_BLOCK_SIZE / 2; continue;   and then   pos <<= 1
\* Variant: offset 0 is doubled like every other offset.
ContinuePosDoublingOnly(p) == p * 2

\* Variant: the half-block offset is itself the next candidate.
ContinuePosAtHalfBlock(p) ==
    IF p = 0 THEN (NTFS_BLOCK_SIZE \div 2) \div OfsUnit ELSE p * 2

ContinuePos(p) ==
    (IF p = 0 THEN (NTFS_BLOCK_SIZE \div 2) \div OfsUnit ELSE p) * 2

\* Resources after lines 591-602 went through without an error.
ResAfterMap ==
    IF NeedMap
    THEN [(IF upl # NULL THEN Unmap(res) ELSE res)
             EXCEPT !.mapped = @ + 1, !.reads = @ + 1]
    ELSE res

Mapped ==
    /\ upl' = IF NeedMap THEN [page |-> pos] ELSE upl
    /\ ppos' = IF NeedMap THEN pos ELSE ppos

\* The err: label, lines 721-726, reached with resources r and heap h.
ErrCleanup(r, h, e, fault) ==
    /\ res' = UnlockAndPut(r)
    /\ heap' = IF rstr1_ph # NULL THEN IOFree(h, rstr1_ph) ELSE h
    /\ last' = Finish(last, e, NULL, "err", fault)
    /\ pc' = "done" /\ rp' = "NULL"
    /\ LocalsReset

InLoop == pc = "scan" /\ pos < size

ScanDone ==
    /\ pc = "scan" /\ ~(pos < size)
    /\ pc' = "post"
    /\ UNCHANGED <<volume, rp, out, locals, heap, res, examined, loads, last>>

ScanMapFails(e) ==
    /\ InLoop /\ NeedMap
    /\ ErrCleanup([(IF upl # NULL THEN Unmap(res) ELSE res) EXCEPT !.reads = @ + 1],
                  heap, ReadErr(e), [src |-> "ntfs_page_map", err |-> e])
    /\ UNCHANGED <<volume, out, examined, loads>>

ScanEmptyContinue ==
    /\ InLoop
    /\ ntfs_is_empty_record(journal[pos].magic)
    /\ logfile_is_empty
    /\ Mapped /\ res' = ResAfterMap
    /\ examined' = Append(examined, pos)
    /\ pos' = ContinuePos(pos)
    /\ UNCHANGED <<volume, pc, rp, out, size, logfile_is_empty, rstr1_ph,
                   rstr2_ph, rstr1_lsn, rstr2_lsn, err, heap, loads, last>>

ScanEmptyBreak ==
    /\ InLoop
    /\ ntfs_is_empty_record(journal[pos].magic)
    /\ ~logfile_is_empty
    /\ Mapped /\ res' = ResAfterMap
    /\ examined' = Append(examined, pos)
    /\ pc' = "post"
    /\ UNCHANGED <<volume, rp, out, size, pos, logfile_is_empty, rstr1_ph,
                   rstr2_ph, rstr1_lsn, rstr2_lsn, err, heap, loads, last>>

ScanRcrd ==
    /\ InLoop
    /\ ~ntfs_is_empty_record(journal[pos].magic)
    /\ ntfs_is_rcrd_record(journal[pos].magic)
    /\ Mapped /\ res' = ResAfterMap
    /\ examined' = Append(examined, pos)
    /\ logfile_is_empty' = FALSE
    /\ pc' = "post"
    /\ UNCHANGED <<volume, rp, out, size, pos, rstr1_ph,
                   rstr2_ph, rstr1_lsn, rstr2_lsn, err, heap, loads, last>>

IsRestartMagic(m) == ntfs_is_rstr_record(m) \/ ntfs_is_chkd_record(m)

ScanOther ==
    /\ InLoop
    /\ ~ntfs_is_empty_record(journal[pos].magic)
    /\ ~ntfs_is_rcrd_record(journal[pos].magic)
    /\ ~IsRestartMagic(journal[pos].magic)
    /\ Mapped /\ res' = ResAfterMap
    /\ examined' = Append(examined, pos)
    /\ logfile_is_empty' = FALSE
    /\ pos' = ContinuePos(pos)
    /\ UNCHANGED <<volume, pc, rp, out, size, rstr1_ph,
                   rstr2_ph, rstr1_lsn, rstr2_lsn, err, heap, loads, last>>

(***************************************************************************)
(* Lines 641-677: the block carries RSTR or CHKD magic and goes to the     *)
(* Loader.  The call always passes a non-NULL wrp (&rstr1_ph or            *)
(* &rstr2_ph).                                                             *)
(***************************************************************************)
MapFails(rpage, p) ==
    {[at |-> 0, err |-> "OK"]}
    \cup {[at |-> j, err |-> e] : j \in 1..LoadMapsNeeded(rpage, p), e \in CollabErrors}

LoadHere(allocOk, mapFail) ==
    ntfs_restart_page_load(journal[pos], pos, TRUE, allocOk, mapFail)

RECURSIVE FreeTimes(_, _, _)
FreeTimes(h, buf, n) == IF n = 0 THEN h ELSE FreeTimes(IOFree(h, buf), buf, n - 1)

\* The heap after a Loader call with result r: its IOMalloc and its IOFree.
HeapAfterLoad(r) ==
    IF r.allocs = 0 THEN heap
    ELSE LET id == heap.nalloc + 1
             h == [heap EXCEPT !.nalloc = id, !.live = @ \cup {id}]
         IN  FreeTimes(h, [id |-> id], r.frees)

\* Resources after the block was mapped and the Loader mapped and unmapped
\* its own pages.
ResAfterLoad(r) ==
    [ResAfterMap EXCEPT !.reads = @ + r.maps + r.mapfails,
                        !.mapped = @ + r.maps - r.unmaps]

LoadFault(allocOk, mapFail, r) ==
    IF r.mapfails > 0 THEN [src |-> "ntfs_page_map", err |-> mapFail.err]
    ELSE IF r.err = "ENOMEM" THEN [src |-> "IOMalloc", err |-> "ENOMEM"]
    ELSE NULL

\* Variant: an allocation failure is absorbed like an invalid page.
LoadErrAbsorbedWithNomem(e) == e = "EINVAL" \/ e = "ENOMEM"

\* Line 670: if (err != EINVAL) goto err; otherwise the scan goes on.
LoadErrIsAbsorbed(e) == e = "EINVAL"

ScanLoadAccepted ==
    /\ InLoop
    /\ IsRestartMagic(journal[pos].magic)
    /\ \E allocOk \in {TRUE}, mapFail \in {[at |-> 0, err |-> "OK"]} :
         LET r == LoadHere(allocOk, mapFail)
             buf == [id |-> heap.nalloc + 1, page |-> r.trp]
         IN  /\ r.err = "0"
             /\ Mapped /\ res' = ResAfterLoad(r)
             /\ heap' = HeapAfterLoad(r)
             /\ examined' = Append(examined, pos)
             /\ loads' = Append(loads, [pos |-> pos, err |-> r.err, id |-> buf.id])
             /\ logfile_is_empty' = FALSE
             /\ IF rstr1_ph = NULL
                THEN /\ rstr1_ph' = buf /\ rstr1_lsn' = r.lsn
                     /\ UNCHANGED <<rstr2_ph, rstr2_lsn>>
                ELSE /\ rstr2_ph' = buf /\ rstr2_lsn' = r.lsn
                     /\ UNCHANGED <<rstr1_ph, rstr1_lsn>>
             /\ IF pos = 0
                THEN pos' = ContinuePos(pos) /\ pc' = "scan"
                ELSE pos' = pos /\ pc' = "post"
    /\ UNCHANGED <<volume, rp, out, size, err, last>>

ScanLoadInvalid ==
    /\ InLoop
    /\ IsRestartMagic(journal[pos].magic)
    /\ \E allocOk \in BOOLEAN, mapFail \in {[at |-> 0, err |-> "OK"]} :
         LET r == LoadHere(allocOk, mapFail)
         IN  /\ r.err # "0" /\ LoadErrIsAbsorbed(r.err)
             /\ Mapped /\ res' = ResAfterLoad(r)
             /\ heap' = HeapAfterLoad(r)
             /\ examined' = Append(examined, pos)
             /\ loads' = Append(loads, [pos |-> pos, err |-> r.err, id |-> 0])
             /\ logfile_is_empty' = FALSE
             /\ pos' = ContinuePos(pos)
    /\ UNCHANGED <<volume, pc, rp, out, size, rstr1_ph, rstr2_ph, rstr1_lsn,
                   rstr2_lsn, err, last>>

ScanLoadFails ==
    /\ InLoop
    /\ IsRestartMagic(journal[pos].magic)
    /\ \E allocOk \in BOOLEAN, mapFail \in MapFails(journal[pos], pos) :
         LET r == LoadHere(allocOk, mapFail)
         IN  /\ r.err # "0" /\ ~LoadErrIsAbsorbed(r.err)
             /\ ~(~allocOk /\ mapFail.at # 0)
             /\ examined' = Append(examined, pos)
             /\ loads' = Append(loads, [pos |-> pos, err |-> r.err, id |-> 0])
             /\ ErrCleanup(Unmap(ResAfterLoad(r)), HeapAfterLoad(r), r.err,
                           LoadFault(allocOk, mapFail, r))
    /\ UNCHANGED <<volume, out>>

(***************************************************************************)
(* After the loop, lines 678-720.                                          *)
(***************************************************************************)
\* if (upl) ntfs_page_unmap(...); lck_rw_unlock_shared(...); vnode_put(...);
\* Variant: the page of the last block stays mapped after the loop.
ResAfterLoopKeepsPage == UnlockAndPut(res)

ResAfterLoop == UnlockAndPut(IF upl # NULL THEN Unmap(res) ELSE res)

PostEmpty ==
    /\ pc = "post"
    /\ logfile_is_empty
    /\ res' = ResAfterLoop
    /\ NVolLogFileEmpty' = TRUE
    /\ last' = Finish(last, "0", NULL, "scan_empty", NULL)
    /\ pc' = "done" /\ rp' = "NULL"
    /\ LocalsReset
    /\ UNCHANGED <<journal, data_size, emptied, out, heap, examined, loads>>

\* Variant: a journal without restart page counts as consistent.
NoRestartPageIsFine == "0"

\* Line 693: return EINVAL;
NoRestartPageErr == "EINVAL"

PostNoRestartPage ==
    /\ pc = "post"
    /\ ~logfile_is_empty
    /\ rstr1_ph = NULL
    /\ res' = ResAfterLoop
    /\ last' = Finish(last, NoRestartPageErr, NULL, "no_restart", NULL)
    /\ pc' = IF rstr2_ph # NULL THEN "panic" ELSE "done"
    /\ rp' = "NULL"
    /\ LocalsReset
    /\ UNCHANGED <<volume, out, heap, examined, loads>>

\* Variant: the LSNs are compared as unsigned values.
SecondIsMoreRecentUnsigned(lsn1, lsn2) == UGt(lsn2, lsn1, 8)

\* if (rstr2_lsn > rstr1_lsn)
SecondIsMoreRecent(lsn1, lsn2) == SignedGt(lsn2, lsn1)

\* Lines 695-713: the page kept in rstr1_ph and the heap after the other one
\* was freed.
Winner ==
    IF rstr2_ph # NULL /\ SecondIsMoreRecent(rstr1_lsn, rstr2_lsn)
    THEN rstr2_ph ELSE rstr1_ph

HeapAfterChoice ==
    IF rstr2_ph = NULL THEN heap
    ELSE IF SecondIsMoreRecent(rstr1_lsn, rstr2_lsn) THEN IOFree(heap, rstr1_ph)
    ELSE IOFree(heap, rstr2_ph)

\* Lines 715-718: whether the page is handed to the caller.
HandsOut(arg) == arg # "NULL"

PostReturnPage ==
    /\ pc = "post"
    /\ ~logfile_is_empty
    /\ rstr1_ph # NULL
    /\ res' = ResAfterLoop
    /\ IF HandsOut(rp)
       THEN /\ out' = Winner
            /\ heap' = HeapAfterChoice
            /\ last' = Finish(last, "0", Winner, "page", NULL)
       ELSE /\ out' = out
            /\ heap' = IOFree(HeapAfterChoice, Winner)
            /\ last' = Finish(last, "0", NULL, "page", NULL)
    /\ pc' = "done" /\ rp' = "NULL"
    /\ LocalsReset
    /\ UNCHANGED <<volume, examined, loads>>

(***************************************************************************)
(* ntfs_logfile_is_clean(ni, rp) called with no page, with the page the    *)
(* last check handed out, or with any page of CleanArgs.                   *)
(***************************************************************************)
\* What a caller of the volume passes: no page, the page the last check handed
\* out, a page with an open client, a block that is no restart page.
CallerPages ==
    {NULL, RstrOpen(PAGE_SIZE, LE64(100)), RawBlock(magic_RCRD)}
    \cup (IF out = NULL THEN {} ELSE {out.page})

IsClean(page) ==
    /\ Begin
    /\ LET ret == ntfs_logfile_is_clean(NVolLogFileEmpty, page)
       IN  /\ last' = Finish(Started("is_clean", page), ret, NULL, "is_clean", NULL)
           /\ pc' = IF ret = "panic" THEN "panic" ELSE "done"
    /\ res' = ResetCounts(res)
    /\ UNCHANGED <<volume, rp, out, locals>>

(***************************************************************************)
(* ntfs_logfile_empty(ni), lines 798-830.                                  *)
(***************************************************************************)
\* ntfs_attr_set(ni, 0, cnt, 0xff) on the journal: the blocks that start
\* below cnt now hold 0xff bytes.
AttrSet(j, cnt) == [o \in Offsets |-> IF o < cnt THEN FilledBlock ELSE j[o]]

\* How much of the extent a failed ntfs_attr_set had written: nothing, the
\* first block, or all of it.
PartialWrites(ds) == {0, NTFS_BLOCK_SIZE \div OfsUnit, ds}

EmptyNoop ==
    /\ Begin
    /\ NVolLogFileEmpty
    /\ res' = ResetCounts(res)
    /\ last' = Finish(Started("empty", NULL), "0", NULL, "noop", NULL)
    /\ pc' = "done"
    /\ UNCHANGED <<volume, rp, out, locals>>

EmptyVnodeGetFails(e) ==
    /\ Begin
    /\ ~NVolLogFileEmpty
    /\ res' = [ResetCounts(res) EXCEPT !.vgets = @ + 1]
    /\ last' = Finish(Started("empty", NULL), e, NULL, "vnode_get",
                      [src |-> "vnode_get", err |-> e])
    /\ pc' = "done"
    /\ UNCHANGED <<volume, rp, out, locals>>

\* Variant: the usable size is filled instead of the data size.
EmptyExtentUsable == [ofs |-> 0, cnt |-> UsableSize(data_size), val |-> 255]

\* The range handed to ntfs_attr_set.
EmptyExtent == [ofs |-> 0, cnt |-> data_size, val |-> 255]

\* Variant: the flag is set before the result of the write is looked at.
FlagSetBeforeErrCheck == TRUE

\* The flag after a failed write: lines 820-824 return before line 826.
FlagAfterFailedWrite == NVolLogFileEmpty

EmptyWriteFails(e, written) ==
    /\ Begin
    /\ ~NVolLogFileEmpty
    /\ res' = [UnlockAndPut(GetAndLock(ResetCounts(res))) EXCEPT !.writes = @ + 1]
    /\ journal' = AttrSet(journal, written)
    /\ NVolLogFileEmpty' = FlagAfterFailedWrite
    /\ emptied' = emptied
    /\ last' = Finish(Started("empty", EmptyExtent), e, NULL, "write",
                      [src |-> "ntfs_attr_set", err |-> e])
    /\ pc' = "done"
    /\ UNCHANGED <<data_size, rp, out, locals>>

\* Variant: the flag is not set after the write.
EmptyForgetsFlag == FALSE

\* Whether the flag is set once the write succeeded.
EmptySetsFlag == TRUE

EmptyWrites ==
    /\ Begin
    /\ ~NVolLogFileEmpty
    /\ res' = [UnlockAndPut(GetAndLock(ResetCounts(res))) EXCEPT !.writes = @ + 1]
    /\ journal' = AttrSet(journal, EmptyExtent.cnt)
    /\ NVolLogFileEmpty' = EmptySetsFlag
    /\ emptied' = TRUE
    /\ last' = Finish(Started("empty", EmptyExtent), "0", NULL, "written", NULL)
    /\ pc' = "done"
    /\ UNCHANGED <<data_size, rp, out, locals>>

(***************************************************************************)
(* The caller takes the result of the call that returned; the bookkeeping  *)
(* of that call is dropped.                                                *)
(***************************************************************************)
Resume ==
    /\ pc = "done"
    /\ pc' = "idle"
    /\ heap' = NoHeap
    /\ examined' = << >>
    /\ loads' = << >>
    /\ last' = NoCall
    /\ res' = ResetCounts(res)
    /\ UNCHANGED <<volume, rp, out, locals>>

(***************************************************************************)
(* The volume: calls to the three entry points, one at a time.             *)
(***************************************************************************)
Next ==
    \/ \E arg \in RpArgs : CheckAlreadyEmpty(arg)
    \/ \E arg \in RpArgs, e \in VnodeGetErrors : CheckVnodeGetFails(arg, e)
    \/ \E arg \in RpArgs : CheckTooSmall(arg)
    \/ \E arg \in RpArgs : CheckStartScan(arg)
    \/ ScanDone
    \/ \E e \in CollabErrors : ScanMapFails(e)
    \/ ScanEmptyContinue
    \/ ScanEmptyBreak
    \/ ScanRcrd
    \/ ScanOther
    \/ ScanLoadAccepted
    \/ ScanLoadInvalid
    \/ ScanLoadFails
    \/ PostEmpty
    \/ PostNoRestartPage
    \/ PostReturnPage
    \/ \E page \in CallerPages : IsClean(page)
    \/ EmptyNoop
    \/ \E e \in VnodeGetErrors : EmptyVnodeGetFails(e)
    \/ \E e \in WriteErrors, w \in PartialWrites(data_size) : EmptyWriteFails(e, w)
    \/ EmptyWrites
    \/ Resume

Spec == Init /\ [][Next]_vars

(***************************************************************************)
(* ntfs_logfile_is_clean on its own: any state of the flag, any page of    *)
(* CleanArgs or no page.                                                   *)
(***************************************************************************)
InitClean ==
    /\ journal = Journal(FilledBlock, 1, FilledBlock, FilledBlock)
    /\ data_size = MinUsable
    /\ NVolLogFileEmpty \in BOOLEAN /\ emptied = FALSE
    /\ pc = "idle" /\ rp = "NULL" /\ out = NULL
    /\ size = 0 /\ pos = 0 /\ ppos = 0 /\ upl = NULL
    /\ logfile_is_empty = TRUE
    /\ rstr1_ph = NULL /\ rstr2_ph = NULL
    /\ rstr1_lsn = UNDEF /\ rstr2_lsn = UNDEF /\ err = "0"
    /\ heap = NoHeap /\ res = NoRes
    /\ examined = << >> /\ loads = << >>
    /\ last = NoCall

NextClean ==
    \/ \E page \in {NULL} \cup CleanArgs : IsClean(page)
    \/ Resume

SpecClean == InitClean /\ [][NextClean]_vars

(***************************************************************************)
(* C1.  ntfs_logfile_is_clean: with the journal-empty flag set the result  *)
(* is TRUE whatever page, or no page, is passed; with the flag unset and a *)
(* page of RSTR or CHKD magic the result is FALSE exactly when             *)
(* client_in_use_list is not LOGFILE_NO_CLIENT and bit                     *)
(* RESTART_VOLUME_IS_CLEAN of the flags is clear, and TRUE otherwise.      *)
(***************************************************************************)
IsCleanCall == pc \in {"done", "panic"} /\ last.op = "is_clean" /\ last.done

CleanBitSet(f) == (f \div 2) % 2 = 1

C1_IsCleanClassifies ==
    IsCleanCall =>
        /\ last.entry_empty => last.ret = "TRUE"
        /\ (~last.entry_empty /\ last.arg # NULL
                /\ last.arg.magic \in {<<82, 83, 84, 82>>, <<67, 72, 75, 68>>}) =>
             /\ last.ret \in {"TRUE", "FALSE"}
             /\ last.ret = "FALSE" <=>
                   (last.arg.client_in_use_list # 65535 /\ ~CleanBitSet(last.arg.flags))

\* A dirty verdict on an open CHKD page whose flags carry other bits, but not
\* the clean bit.
C1_Witness ==
    /\ IsCleanCall
    /\ ~last.entry_empty /\ last.arg # NULL
    /\ last.arg.magic = <<67, 72, 75, 68>>
    /\ last.arg.client_in_use_list = 0
    /\ last.arg.flags = 5
    /\ last.ret = "FALSE"

(***************************************************************************)
(* C2.  When the scan accepted two restart pages, ntfs_logfile_check       *)
(* returns the second one exactly when its LSN is strictly greater, as a   *)
(* signed 64-bit value, than the LSN of the first, and the first one       *)
(* otherwise; with LSN 100 in the page at offset 0 and LSN 105 in the page *)
(* at its system_page_size the page of LSN 105 is returned.                *)
(***************************************************************************)
CheckReturned == pc = "done" /\ last.op = "check" /\ last.done

Accepted == SelectSeq(loads, LAMBDA l : l.err = "0")

\* The LSN a page of the journal is ranked by.
PageLsn(b) == IF b.magic = <<67, 72, 75, 68>> THEN b.chkdsk_lsn ELSE b.current_lsn

\* The LSNs of Lsns in their order as signed 64-bit values:
\* -2^63 < -1 < 100 < 105.
SignedRank(l) ==
    CASE l = <<0, 0, 0, 0, 0, 0, 0, 128>> -> 0
      [] l = <<255, 255, 255, 255, 255, 255, 255, 255>> -> 1
      [] l = <<100, 0, 0, 0, 0, 0, 0, 0>> -> 2
      [] l = <<105, 0, 0, 0, 0, 0, 0, 0>> -> 3

TwoAcceptedOneReturned ==
    CheckReturned /\ last.page # NULL /\ Len(Accepted) = 2

C2_MostRecentLsnWins ==
    TwoAcceptedOneReturned =>
        LET lsn1 == PageLsn(journal[Accepted[1].pos])
            lsn2 == PageLsn(journal[Accepted[2].pos])
        IN  /\ last.ret = "0"
            /\ last.page.id \in {Accepted[1].id, Accepted[2].id}
            /\ last.page.id = Accepted[2].id <=> SignedRank(lsn2) > SignedRank(lsn1)
            /\ last.page.id = Accepted[1].id <=> SignedRank(lsn2) <= SignedRank(lsn1)
            /\ PageLsn(last.page.page) =
                  IF SignedRank(lsn2) > SignedRank(lsn1) THEN lsn2 ELSE lsn1
            /\ (lsn1 = <<100, 0, 0, 0, 0, 0, 0, 0>> /\ lsn2 = <<105, 0, 0, 0, 0, 0, 0, 0>>)
                  => PageLsn(last.page.page) = <<105, 0, 0, 0, 0, 0, 0, 0>>

\* LSN 100 at offset 0, LSN 105 in the second page, the second page returned.
C2_Witness ==
    /\ TwoAcceptedOneReturned
    /\ Accepted[1].pos = 0
    /\ PageLsn(journal[Accepted[1].pos]) = <<100, 0, 0, 0, 0, 0, 0, 0>>
    /\ PageLsn(journal[Accepted[2].pos]) = <<105, 0, 0, 0, 0, 0, 0, 0>>
    /\ last.page.id = Accepted[2].id
    /\ last.page.page.current_lsn = <<105, 0, 0, 0, 0, 0, 0, 0>>

(***************************************************************************)
(* C3.  Every return of ntfs_logfile_check is one of: success with no page *)
(* handed out, success with one page that passed the Loader and carries    *)
(* RSTR or CHKD magic, or an error with no page handed out.  Success with  *)
(* no page happens only when the flag was set at entry, when every         *)
(* examined block was empty, or when the caller passed NULL for the page   *)
(* (the selected page is then freed).  When an examined block was          *)
(* non-empty, no candidate was accepted, no read failed and no buffer      *)
(* allocation failed, the call returns EINVAL.                             *)
(***************************************************************************)
IsEmptyBlock(o) == journal[o].magic = <<255, 255, 255, 255>>

SomeExaminedNonEmpty == \E i \in 1..Len(examined) : ~IsEmptyBlock(examined[i])

AllExaminedEmpty ==
    examined # << >> /\ \A i \in 1..Len(examined) : IsEmptyBlock(examined[i])

ReadFailed == last.fault # NULL /\ last.fault.src \in {"vnode_get", "ntfs_page_map"}

AllocFailed == last.fault # NULL /\ last.fault.src = "IOMalloc"

\* The page handed out is one the Loader accepted in this call.
HandedPageIsAccepted ==
    /\ \E i \in 1..Len(Accepted) : Accepted[i].id = last.page.id
    /\ last.page.page.magic \in {<<82, 83, 84, 82>>, <<67, 72, 75, 68>>}
    /\ out = last.page

C3_ThreeOutcomes ==
    CheckReturned =>
        /\ (last.ret = "0" /\ last.page = NULL) =>
              \/ last.entry_empty
              \/ AllExaminedEmpty
              \/ (last.arg = "NULL" /\ Len(Accepted) >= 1)
        /\ (last.ret = "0" /\ last.page # NULL) => HandedPageIsAccepted
        /\ last.ret # "0" => (last.page = NULL /\ (last.arg = "OUT" => out = NULL))
        /\ (SomeExaminedNonEmpty /\ Len(Accepted) = 0 /\ ~ReadFailed /\ ~AllocFailed)
              => last.ret = "EINVAL"

\* C3 as stated: success with no page only with the flag set or an all-empty
\* scan, and EINVAL whenever a non-empty block was examined, nothing was
\* accepted and no read failed.
C3_AsStated ==
    CheckReturned =>
        /\ (last.ret = "0" /\ last.page = NULL) =>
              (last.entry_empty \/ AllExaminedEmpty)
        /\ (last.ret = "0" /\ last.page # NULL) => HandedPageIsAccepted
        /\ last.ret # "0" => (last.page = NULL /\ (last.arg = "OUT" => out = NULL))
        /\ (SomeExaminedNonEmpty /\ Len(Accepted) = 0 /\ ~ReadFailed)
              => last.ret = "EINVAL"

\* A scan that met a non-empty block and an invalid candidate, accepted
\* nothing, and returned EINVAL after the loop.
C3_Witness ==
    /\ CheckReturned
    /\ SomeExaminedNonEmpty /\ Len(Accepted) = 0 /\ Len(loads) >= 1
    /\ ~ReadFailed /\ ~AllocFailed
    /\ last.ret = "EINVAL" /\ last.path = "no_restart"

(***************************************************************************)
(* C4.  A candidate the Loader rejects with EINVAL never ends the scan:    *)
(* the scan goes on at a later offset, and a valid restart page found      *)
(* there is accepted and returned.  Any other Loader error ends the call   *)
(* at once and is its return value.                                        *)
(***************************************************************************)
LoaderCalled == Len(loads') = Len(loads) + 1

LoaderStep ==
    LoaderCalled =>
        LET l == loads'[Len(loads')]
        IN  /\ l.err = "EINVAL" =>
                 (pc' = "scan" /\ pos' > pos /\ ~last'.done /\ last'.ret = "0")
            /\ l.err \notin {"0", "EINVAL"} =>
                 /\ l.err \in {"ENOMEM", "EIO"}
                 /\ pc' = "done" /\ last'.done
                 /\ last'.ret = l.err /\ last'.page = NULL

AcceptedAfterInvalid ==
    \E i, j \in 1..Len(loads) : i < j /\ loads[i].err = "EINVAL" /\ loads[j].err = "0"

LaterPageReturned ==
    (CheckReturned /\ AcceptedAfterInvalid) =>
        /\ last.ret = "0"
        /\ last.arg = "OUT" =>
              (last.page # NULL /\ \E j \in 1..Len(loads) :
                  loads[j].err = "0" /\ loads[j].id = last.page.id)

C4_InvalidCandidateAbsorbed == [](LaterPageReturned) /\ [][LoaderStep]_vars

\* An invalid candidate at offset 0, then a valid page that is returned.
C4_Witness ==
    /\ CheckReturned
    /\ Len(loads) = 2
    /\ loads[1].pos = 0 /\ loads[1].err = "EINVAL"
    /\ loads[2].err = "0"
    /\ last.ret = "0" /\ last.page # NULL /\ last.page.id = loads[2].id

(***************************************************************************)
(* C5.  With the journal-empty flag set, ntfs_logfile_check returns        *)
(* success with no page and ntfs_logfile_empty returns success, and        *)
(* neither gets the vnode, takes the lock, reads a page or writes.  A      *)
(* successful ntfs_logfile_empty leaves the flag set, the return to the    *)
(* caller keeps it, so the ntfs_logfile_check that follows reports an      *)
(* empty journal without reading.                                          *)
(***************************************************************************)
CalledWithFlagSet ==
    pc = "done" /\ last.op \in {"check", "empty"} /\ last.done /\ last.entry_empty

NoLockNoIo ==
    /\ res.vgets = 0 /\ res.locks = 0 /\ res.reads = 0 /\ res.writes = 0
    /\ examined = << >> /\ loads = << >>

FlagSetShortCircuits ==
    CalledWithFlagSet => (last.ret = "0" /\ last.page = NULL /\ NoLockNoIo)

EmptyThenCheck ==
    /\ (last' # last /\ last'.op = "empty" /\ last'.done /\ last'.ret = "0")
          => NVolLogFileEmpty'
    /\ (pc = "done" /\ pc' = "idle" /\ NVolLogFileEmpty) => NVolLogFileEmpty'
    /\ (pc = "idle" /\ NVolLogFileEmpty /\ last'.op = "check") =>
          /\ pc' = "done" /\ last'.done /\ last'.ret = "0" /\ last'.page = NULL
          /\ res'.reads = 0 /\ res'.locks = 0 /\ journal' = journal
    /\ (pc = "idle" /\ NVolLogFileEmpty /\ last'.op = "empty") =>
          /\ pc' = "done" /\ last'.done /\ last'.ret = "0"
          /\ res'.writes = 0 /\ res'.locks = 0 /\ journal' = journal

C5_EmptyFlagShortCircuits == [](FlagSetShortCircuits) /\ [][EmptyThenCheck]_vars

\* A check made with the flag set, on a journal that ntfs_logfile_empty
\* filled.
C5_Witness ==
    /\ CalledWithFlagSet /\ last.op = "check"
    /\ last.ret = "0" /\ last.page = NULL /\ res.reads = 0
    /\ \A o \in Offsets : o < data_size => IsEmptyBlock(o)

(***************************************************************************)
(* C6.  ntfs_logfile_empty called with the flag unset asks for one         *)
(* overwrite of [0, data_size) with 0xFF.  When getting the vnode or the   *)
(* write fails, the collaborator's error is returned unchanged and the     *)
(* flag stays unset; the flag is set only after the write succeeded, and   *)
(* the call then returns success.                                          *)
(***************************************************************************)
EmptyReturned ==
    pc = "done" /\ last.op = "empty" /\ last.done /\ ~last.entry_empty

C6_EmptyWritesThenSetsFlag ==
    EmptyReturned =>
        /\ res.writes <= 1
        /\ res.writes = 1 => last.arg = [ofs |-> 0, cnt |-> data_size, val |-> 255]
        /\ last.fault # NULL =>
              /\ last.ret = last.fault.err /\ last.ret # "0"
              /\ ~NVolLogFileEmpty
              /\ last.fault.src = "vnode_get" => res.writes = 0
        /\ last.fault = NULL =>
              /\ last.ret = "0" /\ NVolLogFileEmpty /\ res.writes = 1
              /\ \A o \in Offsets : o < data_size => IsEmptyBlock(o)
        /\ NVolLogFileEmpty => last.ret = "0"

\* A write that failed after filling one block: the error comes back and the
\* flag is unset.
C6_Witness ==
    /\ EmptyReturned
    /\ last.fault # NULL /\ last.fault.src = "ntfs_attr_set"
    /\ last.ret = "ENOSPC" /\ ~NVolLogFileEmpty
    /\ IsEmptyBlock(0) /\ ~IsEmptyBlock(2)

(***************************************************************************)
(* C7.  A call of ntfs_logfile_check made with the flag unset and on which *)
(* the vnode is obtained rejects with EINVAL a journal whose usable size   *)
(* (data size clamped to the maximum, truncated to a multiple of the log   *)
(* page size) is below two log pages plus NtfsMinLogRecordPages log pages, *)
(* and no page is mapped or read before the rejection.                     *)
(***************************************************************************)
\* 4096-byte log pages, 256 bytes per unit, at most 2^32 bytes, 2 + 48 pages.
JournalTooSmall ==
    LET clamped == IF data_size > 16777216 THEN 16777216 ELSE data_size
        usable == clamped - (clamped % (4096 \div 256))
    IN  usable < (2 + 48) * (4096 \div 256)

VnodeGetFailed == last.fault # NULL /\ last.fault.src = "vnode_get"

Rejected ==
    /\ last.ret = "EINVAL"
    /\ res.reads = 0 /\ res.mapped = 0 /\ examined = << >> /\ loads = << >>

C7_TooSmallRejected ==
    (CheckReturned /\ JournalTooSmall /\ ~last.entry_empty /\ ~VnodeGetFailed)
        => (Rejected /\ last.path = "too_small")

\* C7 as stated: on every call, whatever the earlier operations left.
C7_AsStated == (CheckReturned /\ JournalTooSmall) => Rejected

\* One log page short of the minimum.
C7_Witness ==
    /\ CheckReturned /\ JournalTooSmall /\ ~last.entry_empty /\ ~VnodeGetFailed
    /\ data_size >= (1 + 48) * (4096 \div 256)
    /\ Rejected /\ res.locks = 1

(***************************************************************************)
(* C8.  The journal-empty flag only ever changes from unset to set, and    *)
(* only when a scan of ntfs_logfile_check ended with every examined block  *)
(* empty or when the write of ntfs_logfile_empty succeeded.                *)
(* ntfs_logfile_is_clean, a check that returns an error and a check that   *)
(* selected a page leave it unchanged.                                     *)
(***************************************************************************)
FlagChanges == NVolLogFileEmpty' # NVolLogFileEmpty

CallReturns == last' # last /\ last'.done /\ last'.op # "none"

FlagStep ==
    /\ NVolLogFileEmpty => NVolLogFileEmpty'
    /\ FlagChanges =>
          /\ CallReturns /\ last'.ret = "0" /\ last'.page = NULL
          /\ \/ /\ last'.op = "check"
                /\ examined' # << >>
                /\ \A i \in 1..Len(examined') : IsEmptyBlock(examined'[i])
             \/ /\ last'.op = "empty"
                /\ res'.writes = 1 /\ last'.fault = NULL
    /\ (CallReturns /\ last'.op = "is_clean") => ~FlagChanges
    /\ (CallReturns /\ last'.op = "check" /\ last'.ret # "0") => ~FlagChanges
    /\ (CallReturns /\ last'.op = "check"
          /\ \E i \in 1..Len(loads') : loads'[i].err = "0") => ~FlagChanges

C8_FlagMonotone == [][FlagStep]_vars

\* The flag set by a scan that found only empty blocks.
C8_Witness ==
    /\ CheckReturned /\ ~last.entry_empty
    /\ AllExaminedEmpty /\ Len(examined) > 1
    /\ last.ret = "0" /\ NVolLogFileEmpty

(***************************************************************************)
(* C9.  Every buffer ntfs_restart_page_load allocates during               *)
(* ntfs_logfile_check is freed exactly once before the call returns,       *)
(* except the one buffer handed to the caller on success with a non-NULL   *)
(* out parameter: none leaks, none is freed twice, at most two accepted    *)
(* buffers are held at any time.                                           *)
(***************************************************************************)
Held(b) == IF b = NULL THEN {} ELSE {b.id}

C9_BuffersFreedOnce ==
    /\ heap.bad = 0
    /\ heap.live \cap heap.freed = {}
    /\ heap.live \cup heap.freed = 1..heap.nalloc
    /\ Cardinality(heap.live) <= 2
    /\ pc \in {"scan", "post"} => heap.live = Held(rstr1_ph) \cup Held(rstr2_ph)
    /\ CheckReturned =>
          /\ heap.live = Held(last.page)
          /\ last.page # NULL => (last.ret = "0" /\ last.arg = "OUT")

\* A read error in the load of the second candidate, after the first page
\* was accepted: both buffers were freed.
C9_Witness ==
    /\ CheckReturned
    /\ ReadFailed /\ last.ret = "EIO"
    /\ heap.nalloc = 2 /\ heap.freed = {1, 2} /\ heap.live = {}
    /\ loads[1].err = "0"

(***************************************************************************)
(* C10.  An error of vnode_get is returned by ntfs_logfile_check unchanged *)
(* except EINVAL, which is returned as EIO.  An error of ntfs_page_map is  *)
(* returned unchanged only when it is EIO or ENOMEM; every other error of  *)
(* ntfs_page_map, EINVAL included, is returned as EIO.                     *)
(***************************************************************************)
C10_ReadErrorsRemapped ==
    (CheckReturned /\ ReadFailed) =>
        last.ret =
            IF last.fault.src = "vnode_get"
            THEN (IF last.fault.err = "EINVAL" THEN "EIO" ELSE last.fault.err)
            ELSE (IF last.fault.err \in {"EIO", "ENOMEM"} THEN last.fault.err
                  ELSE "EIO")

\* C10 as stated: every read error but EINVAL is returned unchanged.
C10_AsStated ==
    (CheckReturned /\ ReadFailed) =>
        last.ret = IF last.fault.err = "EINVAL" THEN "EIO" ELSE last.fault.err

\* ntfs_page_map reported ENOENT inside the Loader and the call returned EIO.
C10_Witness ==
    /\ CheckReturned /\ ReadFailed
    /\ last.fault.src = "ntfs_page_map" /\ last.fault.err = "ENOENT"
    /\ Len(loads) >= 1 /\ loads[Len(loads)].err = "EIO"
    /\ last.ret = "EIO"

(***************************************************************************)
(* ntfs_log_client_array_is_consistent on its own: every client array of   *)
(* up to MaxClients records.  The list heads and the next_client fields    *)
(* are LOGFILE_NO_CLIENT, an index of the array, or the first index past   *)
(* it; the first or the last record may carry a prev_client.              *)
(***************************************************************************)
MaxClients == 3

ClientIdx(n) == {LOGFILE_NO_CLIENT} \cup 0..n

ClientArrays(n) ==
    {[Rstr(PAGE_SIZE, LE64(100)) EXCEPT
          !.log_clients = n, !.client_free_list = f, !.client_in_use_list = u,
          !.clients = [i \in 1..n |->
                          Client(IF p = i - 1 THEN 0 ELSE LOGFILE_NO_CLIENT, nx[i])]] :
        f \in ClientIdx(n), u \in ClientIdx(n),
        nx \in [1..n -> ClientIdx(n)],
        p \in {LOGFILE_NO_CLIENT, 0, n - 1}}

\* No call of the driver is running: a static function is about to be applied
\* to an argument of its own.
InitUnit ==
    /\ journal = Journal(FilledBlock, 1, FilledBlock, FilledBlock)
    /\ data_size = MinUsable
    /\ NVolLogFileEmpty = FALSE /\ emptied = FALSE
    /\ pc = "unit" /\ rp = "NULL" /\ out = NULL
    /\ size = 0 /\ pos = 0 /\ ppos = 0 /\ upl = NULL
    /\ logfile_is_empty = TRUE
    /\ rstr1_ph = NULL /\ rstr2_ph = NULL
    /\ rstr1_lsn = UNDEF /\ rstr2_lsn = UNDEF /\ err = "0"
    /\ heap = NoHeap /\ res = NoRes
    /\ examined = << >> /\ loads = << >>
    /\ last = NoCall

\* A call of a static function returns: its verdict and the records or
\* blocks it looked at.
UnitCall(op, arg, ret, seen) ==
    /\ pc = "unit"
    /\ last' = Finish(Started(op, arg), ret, NULL, op, NULL)
    /\ examined' = seen
    /\ pc' = "done"
    /\ UNCHANGED <<volume, rp, out, locals, heap, res, loads>>

Verdict(b) == IF b THEN "TRUE" ELSE "FALSE"

CheckClientArray(page) ==
    LET walk == ClientArrayWalk(page)
    IN  UnitCall("client_array", page,
                 Verdict(ntfs_log_client_array_is_consistent(page)), walk.seen)

\* A caller hands any client array to the function.
CheckAnyClientArray ==
    /\ pc = "unit"
    /\ \E n \in 0..MaxClients : \E page \in ClientArrays(n) : CheckClientArray(page)

NextClients ==
    \/ CheckAnyClientArray
    \/ Resume

SpecClients == InitUnit /\ [][NextClients]_vars

(***************************************************************************)
(* C11.  ntfs_log_client_array_is_consistent returns on every client       *)
(* array after at most log_clients record visits in total, and returns     *)
(* FALSE for every list whose chain of next_client indices comes back to a *)
(* record it already visited.                                              *)
(***************************************************************************)
ClientsChecked == pc = "done" /\ last.op = "client_array" /\ last.done

\* The chain from idx runs through hops + 1 records of the array without
\* meeting the sentinel or leaving the array.
RECURSIVE StaysInArray(_, _, _)
StaysInArray(page, idx, hops) ==
    /\ idx # 65535 /\ idx < page.log_clients
    /\ hops = 0 \/ StaysInArray(page, page.clients[idx + 1].next_client, hops - 1)

\* log_clients + 1 records in a row inside an array of log_clients records:
\* one of them is visited twice.
CyclicFrom(page, head) == StaysInArray(page, head, page.log_clients)

C11_ClientWalkBounded ==
    ClientsChecked =>
        /\ Len(examined) <= last.arg.log_clients
        /\ (CyclicFrom(last.arg, last.arg.client_free_list)
              \/ CyclicFrom(last.arg, last.arg.client_in_use_list))
             => last.ret = "FALSE"

\* A free list 0 -> 1 -> 2 -> 1 in an array of three records: three visits,
\* then FALSE.
C11_Witness ==
    /\ ClientsChecked
    /\ last.arg.log_clients = 3 /\ last.arg.client_free_list = 0
    /\ last.arg.clients[1].next_client = 1
    /\ last.arg.clients[2].next_client = 2
    /\ last.arg.clients[3].next_client = 1
    /\ examined = <<0, 1, 2>>
    /\ last.ret = "FALSE"

(***************************************************************************)
(* C18.  ntfs_log_client_array_is_consistent returns TRUE exactly when     *)
(* each of the two lists has a head record with prev_client =              *)
(* LOGFILE_NO_CLIENT, only indices below log_clients, and reaches the      *)
(* sentinel, and the two lists together visit at most log_clients          *)
(* records: the in-use list is checked against the budget the free list    *)
(* left, not against a fresh one.                                          *)
(***************************************************************************)
\* The chain from idx reaches the sentinel within budget records, all of
\* them inside the array.
RECURSIVE ReachesSentinel(_, _, _)
ReachesSentinel(page, idx, budget) ==
    \/ idx = 65535
    \/ /\ budget > 0 /\ idx < page.log_clients
       /\ ReachesSentinel(page, page.clients[idx + 1].next_client, budget - 1)

\* A list taken separately, with log_clients visits of its own.
ListIsFine(page, head) ==
    \/ head = 65535
    \/ /\ head < page.log_clients
       /\ page.clients[head + 1].prev_client = 65535
       /\ ReachesSentinel(page, head, page.log_clients)

\* Number of records of a list that is fine.
RECURSIVE ListLength(_, _)
ListLength(page, idx) ==
    IF idx = 65535 THEN 0
    ELSE 1 + ListLength(page, page.clients[idx + 1].next_client)

BothListsFine ==
    /\ ListIsFine(last.arg, last.arg.client_free_list)
    /\ ListIsFine(last.arg, last.arg.client_in_use_list)

ListsFitTogether ==
    ListLength(last.arg, last.arg.client_free_list)
        + ListLength(last.arg, last.arg.client_in_use_list) <= last.arg.log_clients

C18_ListsShareBudget ==
    ClientsChecked =>
        (last.ret = "TRUE" <=> (BothListsFine /\ ListsFitTogether))

\* C18 as stated: each list has its own budget of log_clients visits.
C18_AsStated ==
    ClientsChecked => (last.ret = "TRUE" <=> BothListsFine)

\* Two records, both on the free list, the first one also the in-use list:
\* each list is fine on its own, the array is rejected.
C18_Witness ==
    /\ ClientsChecked
    /\ last.arg.log_clients = 2
    /\ last.arg.client_free_list = 0 /\ last.arg.client_in_use_list = 1
    /\ last.arg.clients[1] = [prev_client |-> 65535, next_client |-> 1]
    /\ last.arg.clients[2] = [prev_client |-> 65535, next_client |-> 65535]
    /\ BothListsFine /\ ~ListsFitTogether
    /\ examined = <<0, 1>>
    /\ last.ret = "FALSE"

(***************************************************************************)
(* ntfs_restart_page_header_is_valid and ntfs_restart_area_is_valid on     *)
(* their own.  The headers: every pair of page sizes of PageSizes with     *)
(* either magic and version at several offsets, and update sequence        *)
(* arrays of every placement of UsaOfsVals x UsaCountVals.  The areas:     *)
(* every file size 0, 2^k, 2^(k+1) - 1 up to MaxFileSizeBit with           *)
(* seq_number_bits on and next to the expected value, and client arrays of *)
(* every extent of CaOfsVals x LogClientVals x RaLengthVals.               *)
(***************************************************************************)
PageSizes ==
    {0, 1, 256, 511, 512, 513, 768, 1024, 4096, 4097, 6144, 65536,
     33554432, 1073741824, 2147483647}

\* A header that differs from a good one in its page sizes and version.
SizedHeader(m, sps, lps, ver) ==
    LET cnt == (1 + (sps \div NTFS_BLOCK_SIZE)) % U16
    IN  [GoodPage(m, PAGE_SIZE, LE64(100), LOGFILE_NO_CLIENT) EXCEPT
            !.system_page_size = sps, !.log_page_size = lps,
            !.usa_count = IF m = magic_CHKD THEN 0 ELSE cnt,
            !.restart_area_offset =
                IF m = magic_CHKD THEN 32
                ELSE RoundUp8(SizeofRestartPageHeader + 2 * cnt),
            !.major_ver = ver]

SizedHeaders ==
    {[rp |-> SizedHeader(m, sps, lps, ver), pos |-> p] :
        m \in {magic_RSTR, magic_CHKD}, sps \in PageSizes, lps \in PageSizes,
        ver \in {1, 2}, p \in {0, 2, 16, 32}}

UsaOfsVals == {0, 28, 30, 40, 492, 65518, 65534}
UsaCountVals == {0, 1, 2, 9, 129, 240, 241}

UsaHeaders ==
    {[rp |-> [GoodPage(m, PAGE_SIZE, LE64(100), LOGFILE_NO_CLIENT) EXCEPT
                 !.system_page_size = sps, !.usa_ofs = uo, !.usa_count = uc,
                 !.restart_area_offset = ro],
      pos |-> 0] :
        m \in {magic_RSTR, magic_CHKD},
        sps \in {512, 4096, 65536, 16777216, 33554432, 1073741824},
        uo \in UsaOfsVals, uc \in UsaCountVals,
        ro \in {0, 24, 32, 40, 48, 288, 512, 520}}

ValidateHeader(h) ==
    UnitCall("header", h,
             Verdict(ntfs_restart_page_header_is_valid(h.rp, h.pos)), << >>)

ValidateAnyHeader ==
    /\ pc = "unit"
    /\ \/ \E h \in SizedHeaders : ValidateHeader(h)
       \/ \E h \in UsaHeaders : ValidateHeader(h)

MaxFileSizeBit == 62

\* 2^k as the 8 little-endian bytes of an sle64, and 2^(k+1) - 1.
Bit64(k) == [i \in 1..8 |-> IF i = (k \div 8) + 1 THEN Pow2(k % 8) ELSE 0]
Ones64(k) ==
    [i \in 1..8 |->
        IF i < (k \div 8) + 1 THEN 255
        ELSE IF i = (k \div 8) + 1 THEN Pow2((k % 8) + 1) - 1 ELSE 0]

\* File sizes with the number of shifts that empty them.
FileSizes ==
    {[fs |-> LE64(0), bits |-> 0]}
    \cup {[fs |-> Bit64(k), bits |-> k + 1] : k \in 0..MaxFileSizeBit}
    \cup {[fs |-> Ones64(k), bits |-> k + 1] : k \in 0..MaxFileSizeBit}

FileSizeAreas ==
    {[Rstr(PAGE_SIZE, LE64(100)) EXCEPT
          !.file_size = f.fs, !.seq_number_bits = 67 - f.bits + d] :
        f \in FileSizes, d \in {-1, 0, 1}}

CaOfsVals == {0, 40, 48, 64, 440, 464, 65528}
LogClientVals == {0, 1, 2, 3, 409, 410, 411, 819, 820, 65535}
RaLengthVals == {0, 48, 64, 112, 128, 208, 224, 368, 464, 4048, 65535}

ClientExtentAreas ==
    {[Rstr(sps, LE64(100)) EXCEPT
          !.client_array_offset = co, !.log_clients = lc,
          !.restart_area_length = rl,
          !.client_free_list = LOGFILE_NO_CLIENT] :
        sps \in {NTFS_BLOCK_SIZE, PAGE_SIZE},
        co \in CaOfsVals, lc \in LogClientVals, rl \in RaLengthVals}

ValidateArea(page) ==
    UnitCall("area", page, Verdict(ntfs_restart_area_is_valid(page)), << >>)

ValidateAnyArea ==
    /\ pc = "unit"
    /\ \/ \E page \in FileSizeAreas : ValidateArea(page)
       \/ \E page \in ClientExtentAreas : ValidateArea(page)

NextValid ==
    \/ ValidateAnyHeader
    \/ ValidateAnyArea
    \/ Resume

SpecValid == InitUnit /\ [][NextValid]_vars

(***************************************************************************)
(* C12.  The sequence number width is tied to the file size.               *)
(***************************************************************************)
AreaChecked == pc = "done" /\ last.op = "area"

\* The number of right shifts that bring the 64-bit value to zero, read off
\* the bytes: one more than the index of the highest set bit.
BitLength64(b) ==
    LET set == {8 * (i - 1) + j : i \in 1..8, j \in 1..8}
        on == {n \in set : (b[((n - 1) \div 8) + 1] \div Pow2((n - 1) % 8)) % 2 = 1}
    IN  IF on = {} THEN 0 ELSE CHOOSE n \in on : \A m \in on : m <= n

\* The area differs from an acceptable one in file_size and seq_number_bits
\* at most, so every other check passes.
OtherChecksPass(page) ==
    [page EXCEPT !.file_size = LE64(204800), !.seq_number_bits = 49]
        = Rstr(PAGE_SIZE, LE64(100))

\* C12: a restart area with a non-negative file_size that passes every
\* other check is accepted when seq_number_bits is 67 minus the bit length
\* of file_size, and rejected when it is one more or one less.
C12_SeqNumberBitsMatchFileSize ==
    (AreaChecked /\ OtherChecksPass(last.arg) /\ last.arg.file_size[8] < 128) =>
        LET expected == 67 - BitLength64(last.arg.file_size)
        IN  /\ last.arg.seq_number_bits = expected => last.ret = "TRUE"
            /\ last.arg.seq_number_bits \in {expected - 1, expected + 1}
                   => last.ret = "FALSE"

C12_Witness ==
    /\ AreaChecked /\ OtherChecksPass(last.arg)
    /\ last.arg.file_size = Bit64(32)
    /\ last.arg.seq_number_bits = 34
    /\ last.ret = "TRUE"

(***************************************************************************)
(* C14.  Page sizes the header validator refuses.                          *)
(***************************************************************************)
HeaderChecked == pc = "done" /\ last.op = "header"

IsPowerOfTwo(x) == \E i \in 0..30 : x = Pow2(i)

\* C14: a header whose system_page_size or log_page_size is below
\* NTFS_BLOCK_SIZE, or is not a power of two, is rejected.
C14_PageSizesPowerOfTwo ==
    HeaderChecked =>
        LET h == last.arg.rp
        IN  (\/ h.system_page_size < NTFS_BLOCK_SIZE
             \/ h.log_page_size < NTFS_BLOCK_SIZE
             \/ ~IsPowerOfTwo(h.system_page_size)
             \/ ~IsPowerOfTwo(h.log_page_size)) => last.ret = "FALSE"

\* Only the log page size is at fault: 6144 is large enough but no power of
\* two, in a header that is accepted with a log page size of 4096.
C14_Witness ==
    /\ HeaderChecked
    /\ last.arg.pos = 0
    /\ last.arg.rp = SizedHeader(magic_RSTR, PAGE_SIZE, 6144, 1)
    /\ ntfs_restart_page_header_is_valid(
           SizedHeader(magic_RSTR, PAGE_SIZE, PAGE_SIZE, 1), 0)
    /\ last.ret = "FALSE"

(***************************************************************************)
(* C13.  Where a restart page may be read.  The header validator on its    *)
(* own and the scan of ntfs_logfile_check run side by side.                *)
(***************************************************************************)
InitScanValid == Init \/ InitUnit

NextScanValid == Next \/ ValidateAnyHeader

SpecScanValid == InitScanValid /\ [][NextScanValid]_vars

\* The byte offset of unit offset p is the declared system page size.
AtOwnPageSize(page, p) ==
    page.system_page_size = OfsUnit * (page.system_page_size \div OfsUnit)
    /\ page.system_page_size \div OfsUnit = p

\* C13: the header validator rejects every header read at an offset that is
\* neither 0 nor the header's own system_page_size, whatever its other
\* fields; hence every restart page the scan accepted was read at offset 0
\* or at its own system_page_size.
C13_OnlyTwoOffsets ==
    /\ (HeaderChecked /\ last.arg.pos # 0
            /\ ~AtOwnPageSize(last.arg.rp, last.arg.pos)) => last.ret = "FALSE"
    /\ \A i \in 1..Len(loads) :
           loads[i].err = "0" =>
               \/ loads[i].pos = 0
               \/ AtOwnPageSize(journal[loads[i].pos], loads[i].pos)

\* The scan refused a page that is acceptable but for its offset, and took
\* the page before it.
C13_Witness ==
    /\ CheckReturned
    /\ \E i, j \in 1..Len(loads) :
           /\ loads[i].err = "0" /\ loads[i].pos = 0
           /\ loads[j].err = "EINVAL" /\ loads[j].pos # 0
           /\ journal[loads[j].pos] = Rstr(2 * OfsUnit * loads[j].pos, LE64(105))

(***************************************************************************)
(* C15.  The order of the candidate offsets.                               *)
(***************************************************************************)
HalfBlockOfs == (NTFS_BLOCK_SIZE \div 2) \div OfsUnit
BlockOfs == NTFS_BLOCK_SIZE \div OfsUnit

\* The i-th offset of 0, NTFS_BLOCK_SIZE, 2 * NTFS_BLOCK_SIZE, ...
DoublingFromBlock(i) == IF i = 1 THEN 0 ELSE BlockOfs * Pow2(i - 2)

\* The i-th offset of 0, NTFS_BLOCK_SIZE / 2, NTFS_BLOCK_SIZE, ...
DoublingFromHalfBlock(i) == IF i = 1 THEN 0 ELSE HalfBlockOfs * Pow2(i - 2)

\* The blocks examined so far follow the order, every one lies below the
\* usable size, and while the loop runs the next candidate is the next
\* offset of the order.
ScanFollows(Order(_)) ==
    /\ \A i \in 1..Len(examined) : examined[i] = Order(i)
    /\ pc = "scan" =>
           /\ \A i \in 1..Len(examined) : examined[i] < size
           /\ pos = Order(Len(examined) + 1)

\* C15: the scan examines the offsets 0, NTFS_BLOCK_SIZE, 2 * NTFS_BLOCK_SIZE,
\* 4 * NTFS_BLOCK_SIZE, ..., each one after NTFS_BLOCK_SIZE double the one
\* before, while the offset is below the usable size and nothing stopped the
\* scan; the half-block offset is a stepping stone that is never examined.
C15_ScanOrderFromBlock == ScanFollows(DoublingFromBlock)

\* The order as stated: the half-block offset is examined after offset 0.
C15_AsStated == ScanFollows(DoublingFromHalfBlock)

\* A scan went past offset 0 and on to a third block: the second block
\* examined is the one at NTFS_BLOCK_SIZE.
C15_Witness ==
    /\ CheckReturned
    /\ Len(examined) >= 3
    /\ examined[2] = BlockOfs /\ examined[2] # HalfBlockOfs
    /\ examined[3] = 2 * BlockOfs

(***************************************************************************)
(* C16.  The extent of the client array, in integers that do not wrap.     *)
(***************************************************************************)
\* client_array_offset + log_clients * sizeof(LOG_CLIENT_RECORD), exactly.
ExactRaLen(page) ==
    page.client_array_offset + page.log_clients * SizeofLogClientRecord

\* C16: every accepted restart area has, in exact arithmetic, its computed
\* length within restart_area_length, its computed end within
\* system_page_size and its declared end within system_page_size.
C16_AreaWithinPageExactly ==
    (AreaChecked /\ last.ret = "TRUE") =>
        LET page == last.arg
        IN  /\ ExactRaLen(page) <= page.restart_area_length
            /\ page.restart_area_offset + ExactRaLen(page) <= page.system_page_size
            /\ page.restart_area_offset + page.restart_area_length
                   <= page.system_page_size

\* 410 client records take 65600 bytes, which the 16-bit ra_len holds as 64:
\* the area is accepted with a declared length of 128 bytes.
C16_Witness ==
    /\ AreaChecked
    /\ last.arg.client_array_offset = 48 /\ last.arg.log_clients = 410
    /\ last.arg.restart_area_length = 128
    /\ last.arg.system_page_size = PAGE_SIZE
    /\ ExactRaLen(last.arg) = 65648 /\ RaLen(last.arg) = 112
    /\ last.ret = "TRUE"

(***************************************************************************)
(* C17.  The update sequence array, in integers that do not wrap.          *)
(***************************************************************************)
\* The end of the update sequence array the header declares, exactly.
ExactUsaEnd(h) == h.usa_ofs + 2 * h.usa_count

\* C17: every accepted header that is not a CHKD page with usa_count 0 and
\* has a power-of-two system_page_size has usa_count = 1 + system_page_size
\* / NTFS_BLOCK_SIZE, usa_ofs at or after the end of the header, the whole
\* array before the last word of the first block, and restart_area_offset at
\* or after the end of the array, all in exact arithmetic.
C17_UsaWithinFirstBlockExactly ==
    LET h == last.arg.rp
    IN  (/\ HeaderChecked /\ last.ret = "TRUE"
         /\ ~(h.magic = <<67, 72, 75, 68>> /\ h.usa_count = 0)
         /\ IsPowerOfTwo(h.system_page_size)) =>
            /\ h.usa_count = 1 + h.system_page_size \div NTFS_BLOCK_SIZE
            /\ h.usa_ofs >= SizeofRestartPageHeader
            /\ ExactUsaEnd(h) <= NTFS_BLOCK_SIZE - 2
            /\ h.restart_area_offset >= ExactUsaEnd(h)

\* An array of 9 entries at offset 65518 ends at byte 65536, which the 16-bit
\* usa_end holds as 0: the header is accepted.
C17_Witness ==
    /\ HeaderChecked
    /\ last.arg.rp.magic = <<82, 83, 84, 82>>
    /\ last.arg.rp.system_page_size = PAGE_SIZE
    /\ last.arg.rp.usa_count = 9 /\ last.arg.rp.usa_ofs = 65518
    /\ last.arg.rp.restart_area_offset = 48
    /\ ExactUsaEnd(last.arg.rp) = 65536 /\ UsaEnd(last.arg.rp) = 0
    /\ last.ret = "TRUE"

(***************************************************************************)
(* ntfs_restart_page_load on its own: restart pages of one and of two      *)
(* memory pages at offset 0, protected or with a failing fixup, with       *)
(* restart areas that end at each of AreaEnds, with and without update     *)
(* sequence array and in-use clients, under every outcome of the           *)
(* allocation and of the page mappings.                                    *)
(***************************************************************************)
AreaEnds == {432, 504, 509, 510, 511, 512, 513, 528, 4096}

LoadPages ==
    {LET g == GoodPage(m, sps, LE64(100), inuse)
     IN  [g EXCEPT !.usn = u, !.usa_count = uc,
                   !.restart_area_length = e - g.restart_area_offset,
                   !.clients[1].next_client = nx,
                   !.clients[2].prev_client = pv] :
        m \in {magic_RSTR, magic_CHKD}, sps \in {PAGE_SIZE, 2 * PAGE_SIZE},
        inuse \in {LOGFILE_NO_CLIENT, 0}, u \in {"prot", "bad"},
        uc \in {0, 1 + PAGE_SIZE \div NTFS_BLOCK_SIZE,
                1 + (2 * PAGE_SIZE) \div NTFS_BLOCK_SIZE},
        e \in AreaEnds, nx \in {LOGFILE_NO_CLIENT, 0},
        pv \in {LOGFILE_NO_CLIENT, 0}}

LoadPage(page, wrp, allocOk, mapFail) ==
    LET r == ntfs_restart_page_load(page, 0, wrp, allocOk, mapFail)
    IN  /\ pc = "unit"
        /\ last' = Finish(Started("load", [rp |-> page, pos |-> 0, wrp |-> wrp,
                                           allocOk |-> allocOk,
                                           mapFail |-> mapFail]),
                          r.err, r, "load", NULL)
        /\ examined' = LoadClientsRead(page, 0, allocOk, mapFail)
        /\ pc' = "done"
        /\ UNCHANGED <<volume, rp, out, locals, heap, res, loads>>

\* Pages that declare up to 410 client records, with heads at the first and
\* last record the buffer holds and past it; the memory after the first two
\* records ends the chain or leads back to record 1.
WideClientPages ==
    {[Rstr(PAGE_SIZE, LE64(100)) EXCEPT
          !.log_clients = lc, !.restart_area_length = rl,
          !.client_free_list = f, !.client_in_use_list = u,
          !.rest = Client(LOGFILE_NO_CLIENT, nx)] :
        lc \in {2, 25, 26, 410}, rl \in {128, 368, 4048},
        f \in {LOGFILE_NO_CLIENT, 1}, u \in {0, 24, 25, 409},
        nx \in {LOGFILE_NO_CLIENT, 1}}

LoadAnyPage ==
    /\ pc = "unit"
    /\ \E wrp \in BOOLEAN, allocOk \in BOOLEAN :
           \/ \E page \in LoadPages :
                  \E mapFail \in MapFails(page, 0) :
                      LoadPage(page, wrp, allocOk, mapFail)
           \/ \E page \in WideClientPages :
                  LoadPage(page, wrp, allocOk, [at |-> 0, err |-> "OK"])

NextLoad ==
    \/ LoadAnyPage
    \/ Resume

SpecLoad == InitUnit /\ [][NextLoad]_vars

(***************************************************************************)
(* C19.  A failing fixup and the extent of the restart area.               *)
(***************************************************************************)
LoadChecked == pc = "done" /\ last.op = "load"

\* The load got as far as the fixup: the validators passed, the buffer was
\* allocated and every page was mapped.
FixupReached ==
    /\ LoadChecked
    /\ ntfs_restart_page_header_is_valid(last.arg.rp, last.arg.pos)
    /\ ntfs_restart_area_is_valid(last.arg.rp)
    /\ last.arg.allocOk /\ last.arg.mapFail.at = 0

FixupSkipped(page) == page.magic = <<67, 72, 75, 68>> /\ page.usa_count = 0

AreaEnd(page) == page.restart_area_offset + page.restart_area_length

\* The same load of the same page with intact update sequence numbers.
LoadOfIntact ==
    ntfs_restart_page_load([last.arg.rp EXCEPT !.usn = "prot"], last.arg.pos,
                           last.arg.wrp, last.arg.allocOk, last.arg.mapFail)

\* What a failing fixup leads to when the restart area may end at limit.
FixupErrorRule(limit) ==
    FixupReached =>
        LET page == last.arg.rp
        IN  /\ (~FixupSkipped(page) /\ page.usn = "bad") =>
                   IF AreaEnd(page) > limit
                   THEN last.ret = "EINVAL" /\ last.page.trp = NULL
                   ELSE /\ last.ret = LoadOfIntact.err
                        /\ last.page.lsn = LoadOfIntact.lsn
            /\ FixupSkipped(page) =>
                   /\ last.ret = "0" /\ last.page.lsn = page.chkdsk_lsn
                   /\ last.arg.wrp => last.page.trp = page

\* C19: when the fixup reports an error the page is rejected with EINVAL if
\* restart_area_offset + restart_area_length > NTFS_BLOCK_SIZE - 2, that is
\* if the restart area reaches into the last word of the first block, and
\* the load otherwise continues as if the fixup had succeeded; the fixup is
\* not applied to a CHKD page with usa_count 0.
C19_FixupErrorToleratedBeforeLastWord == FixupErrorRule(NTFS_BLOCK_SIZE - SizeofU16)

\* The rule as stated: areas that end at or before NTFS_BLOCK_SIZE are
\* tolerated.
C19_AsStated == FixupErrorRule(NTFS_BLOCK_SIZE)

\* The restart area ends exactly at the end of the first block and the
\* fixup fails: the page is rejected.
C19_Witness ==
    /\ FixupReached
    /\ last.arg.rp.magic = <<82, 83, 84, 82>> /\ last.arg.rp.usn = "bad"
    /\ AreaEnd(last.arg.rp) = NTFS_BLOCK_SIZE
    /\ LoadOfIntact.err = "0"
    /\ last.ret = "EINVAL"

(***************************************************************************)
(* C20.  The scan loop ends.  A call that has entered ntfs_logfile_check   *)
(* keeps executing: the steps of the loop and of the code after it are     *)
(* taken as long as one of them is possible.                               *)
(***************************************************************************)
Running == pc \in {"scan", "post"} /\ Next

\* The journals that are tried with every data size.
InitEverySize == Init /\ journal \in FewJournals /\ data_size \in DataSizes

SpecRunning == InitEverySize /\ [][Next]_vars /\ WF_vars(Running)

\* This step reads the block at pos and classifies it.
ExaminesBlock == pc = "scan" /\ Len(examined') = Len(examined) + 1

StaysInLoop == pc' = "scan"

ScanStepRule ==
    /\ (pc = "scan" /\ StaysInLoop) => (pos' > pos /\ pos' # 0 /\ pos < size)
    /\ (ExaminesBlock /\ IsEmptyBlock(pos)) =>
           (StaysInLoop <=> ~SomeExaminedNonEmpty)
    /\ (ExaminesBlock /\ journal[pos].magic = <<82, 67, 82, 68>>) => ~StaysInLoop

AllEmptyIsSuccess(readsFine) ==
    (CheckReturned /\ AllExaminedEmpty /\ readsFine) =>
        /\ last.ret = "0" /\ last.page = NULL
        /\ last.arg = "OUT" => out = NULL
        /\ NVolLogFileEmpty

\* C20: the scan loop terminates for every journal: the offset strictly
\* increases on every iteration that stays in the loop and never returns to
\* 0, an empty block ends the loop exactly when a non-empty block was
\* examined before it, an RCRD block always ends it, and a call whose reads
\* all succeed and whose examined blocks are all empty returns success with
\* no page and sets the journal-empty flag.
C20_ScanLoopTerminates ==
    /\ (pc = "scan") ~> (pc = "done")
    /\ [][ScanStepRule]_vars
    /\ [](AllEmptyIsSuccess(~ReadFailed))

\* As stated: every call whose examined blocks are all empty returns
\* success and sets the flag.
C20_AsStated == AllEmptyIsSuccess(TRUE)

\* A scan of an empty journal ran through every offset below the usable size
\* and set the flag.
C20_Witness ==
    /\ CheckReturned /\ AllExaminedEmpty /\ ~ReadFailed
    /\ Len(examined) >= 5
    /\ 2 * examined[Len(examined)] >= UsableSize(data_size)
    /\ NVolLogFileEmpty /\ last.ret = "0"

(***************************************************************************)
(* C21.  When the loader checks the client lists, and the LSN it reports.  *)
(***************************************************************************)
\* The load got past the fixup: it was skipped, succeeded or its error was
\* tolerated.
FixupPassed ==
    /\ FixupReached
    /\ ~(/\ ~FixupSkipped(last.arg.rp) /\ last.arg.rp.usn = "bad"
         /\ AreaEnd(last.arg.rp) > NTFS_BLOCK_SIZE - SizeofU16)

IsRstr(page) == page.magic = <<82, 83, 84, 82>>

ClientCheckDue(page) == IsRstr(page) /\ page.client_in_use_list # LOGFILE_NO_CLIENT

\* C21: the loader runs the client-list check if and only if the page is an
\* RSTR page whose client_in_use_list is not LOGFILE_NO_CLIENT, so a CHKD
\* page or an RSTR page with an empty in-use list is accepted whatever its
\* client records and free list hold; the LSN reported is current_lsn for an
\* RSTR page and chkdsk_lsn for a CHKD page.
C21_ClientCheckOnlyForOpenRstr ==
    FixupPassed =>
        LET page == last.arg.rp
        IN  /\ last.ret = "0" <=>
                   (ClientCheckDue(page) => ClientArrayWalk(page).ok)
            /\ last.ret # "0" => last.ret = "EINVAL"
            /\ last.ret = "0" =>
                   last.page.lsn = IF IsRstr(page) THEN page.current_lsn
                                   ELSE page.chkdsk_lsn

\* A CHKD page with an in-use list that runs in a circle and a free list
\* whose head has a predecessor is accepted with its chkdsk_lsn.
C21_Witness ==
    /\ FixupPassed
    /\ ~IsRstr(last.arg.rp)
    /\ last.arg.rp.client_in_use_list = 0
    /\ last.arg.rp.clients[1].next_client = 0
    /\ last.arg.rp.clients[2].prev_client = 0
    /\ ~ClientArrayWalk(last.arg.rp).ok
    /\ last.ret = "0"
    /\ last.page.lsn = last.arg.rp.chkdsk_lsn
    /\ last.arg.rp.chkdsk_lsn # last.arg.rp.current_lsn

(***************************************************************************)
(* C22.  The client records the walk reads, and the buffer they are in.    *)
(***************************************************************************)
\* Record idx of the client array ends within the system_page_size bytes
\* that were allocated for the page.
RecordInsideBuffer(page, idx) ==
    page.restart_area_offset + page.client_array_offset
        + (idx + 1) * SizeofLogClientRecord <= page.system_page_size

\* C22: every log client record the walk reads during a load lies entirely
\* inside the buffer of system_page_size bytes allocated for the page.
C22_WalkStaysInsideBuffer ==
    LoadChecked =>
        \A i \in 1..Len(examined) : RecordInsideBuffer(last.arg.rp, examined[i])

\* A page that declares 410 client records passes both validators and the
\* walk reads record 409, which starts at byte 65536 of a 4096-byte buffer.
C22_Witness ==
    /\ LoadChecked
    /\ last.arg.rp.system_page_size = PAGE_SIZE
    /\ last.arg.rp.log_clients = 410
    /\ last.arg.rp.restart_area_length = 128
    /\ last.arg.rp.client_in_use_list = 409
    /\ \E i \in 1..Len(examined) : examined[i] = 409
    /\ ~RecordInsideBuffer(last.arg.rp, 409)
    /\ last.ret = "0"

(***************************************************************************)
(* C23.  The panics and the invalid-buffer branch stay out of reach.       *)
(***************************************************************************)
\* What the caller holds in its out parameter.
ReturnedPage == IF out = NULL THEN NULL ELSE out.page

HasRestartMagic(page) ==
    page # NULL /\ page.magic \in {<<82, 83, 84, 82>>, <<67, 72, 75, 68>>}

\* C23: after a ntfs_logfile_check that returned success with a non-NULL
\* out parameter, the journal-empty flag is set or the page returned is
\* non-NULL with RSTR or CHKD magic, so ntfs_logfile_is_clean called with
\* that page neither panics on !rp nor takes the invalid-buffer branch; and
\* ntfs_logfile_check never holds a second accepted page without a first,
\* so its own panic is out of reach.
C23_NoPanicAfterCheck ==
    /\ (CheckReturned /\ last.ret = "0" /\ last.arg = "OUT") =>
           /\ NVolLogFileEmpty \/ HasRestartMagic(ReturnedPage)
           /\ ntfs_logfile_is_clean(NVolLogFileEmpty, ReturnedPage) # "panic"
    /\ (IsCleanCall /\ out # NULL /\ last.arg = out.page) =>
           /\ pc = "done" /\ last.ret \in {"TRUE", "FALSE"}
           /\ HasRestartMagic(last.arg)
    /\ rstr2_ph # NULL => rstr1_ph # NULL
    /\ ~(pc = "panic" /\ last.op = "check")

\* ntfs_logfile_is_clean ran on the page a check handed out while the flag
\* was not set, and took neither the panic nor the invalid-buffer branch.
C23_Witness ==
    /\ IsCleanCall /\ out # NULL /\ last.arg = out.page
    /\ ~NVolLogFileEmpty
    /\ HasRestartMagic(last.arg)
    /\ last.ret = "FALSE"

(***************************************************************************)
(* C24.  A journal that was reset is found empty.  The journal-empty flag  *)
(* lives in the mounted volume, so a new mount starts with the flag clear  *)
(* while the journal on disk stays as it is.                               *)
(***************************************************************************)
Remount ==
    /\ pc = "idle"
    /\ NVolLogFileEmpty
    /\ NVolLogFileEmpty' = FALSE
    /\ UNCHANGED <<journal, data_size, emptied, pc, rp, out, locals, heap, res,
                   examined, loads, last>>

NextRemount == Next \/ Remount

SpecRemount == Init /\ [][NextRemount]_vars

\* Every block of the data extent holds 0xFF.
ExtentIsReset == \A o \in Offsets : o < data_size => journal[o] = FilledBlock

\* C24: when ntfs_logfile_empty has succeeded on the journal and the flag was
\* cleared afterwards, a ntfs_logfile_check whose usable size passes the
\* too-small check and whose reads all succeed finds every examined block
\* empty, returns success with no page and sets the flag again.
C24_ResetJournalScansEmpty ==
    (/\ CheckReturned /\ ~last.entry_empty
     /\ emptied /\ ExtentIsReset
     /\ ~LogFileTooSmall(UsableSize(data_size))
     /\ last.fault = NULL) =>
        /\ AllExaminedEmpty
        /\ last.ret = "0" /\ last.page = NULL
        /\ last.arg = "OUT" => out = NULL
        /\ NVolLogFileEmpty

\* The journal held restart pages, was reset, the flag was cleared, and the
\* scan then ran over empty blocks up to the usable size.
C24_Witness ==
    /\ CheckReturned /\ ~last.entry_empty
    /\ emptied /\ ExtentIsReset
    /\ \E o \in Offsets : o >= data_size /\ journal[o] = RawBlock(magic_BAAD)
    /\ last.fault = NULL
    /\ Len(examined) >= 5 /\ AllExaminedEmpty
    /\ last.ret = "0" /\ NVolLogFileEmpty

(***************************************************************************)
(* C25.  Every vnode reference, lock and page mapping is given back once.  *)
(***************************************************************************)
\* Nothing is held and nothing was released that was not held.
NothingHeld ==
    res.vnode = 0 /\ res.lock = 0 /\ res.mapped = 0 /\ res.bad = 0

\* C25: in ntfs_logfile_check and ntfs_logfile_empty every successful
\* vnode_get is matched by one vnode_put, every lck_rw_lock_shared by one
\* lck_rw_unlock_shared and every mapped page by one unmap before the
\* function returns, on success and on every error return: at return
\* nothing is held and nothing was released twice, and while a call runs it
\* holds one reference, one lock and at most one page.
C25_ResourcesPaired ==
    /\ (pc = "done" /\ last.op \in {"check", "empty"}) =>
           /\ NothingHeld
           /\ res.vgets <= 1 /\ res.locks <= res.vgets
    /\ pc \in {"scan", "post"} =>
           /\ res.vnode = 1 /\ res.lock = 1 /\ res.bad = 0
           /\ res.mapped = IF upl = NULL THEN 0 ELSE 1
    /\ pc = "idle" => NothingHeld

\* A restart page that spans two memory pages could not be read in full:
\* the call had a page of its own mapped, took the error return and holds
\* nothing.
C25_Witness ==
    /\ CheckReturned /\ last.ret = "EIO"
    /\ last.fault # NULL /\ last.fault.src = "ntfs_page_map"
    /\ \E i \in 1..Len(loads) : loads[i].err = "EIO"
    /\ res.reads >= 2 /\ res.vgets = 1 /\ res.locks = 1
    /\ NothingHeld

=============================================================================
